---- MODULE Spec2Model ----
(***************************************************************************)
(* Job lifecycle of the UK Probate/Divorce case API.                       *)
(*                                                                         *)
(* The model follows backend/app/api/v1/endpoints/cases.py (the in-memory  *)
(* store case_results, the two submission handlers, the two query          *)
(* handlers and the two background functions) and the parts of             *)
(* backend/app/crews/probate_crew.py and divorce_crew.py that decide how a *)
(* background execution ends.                                              *)
(*                                                                         *)
(* Conventions                                                             *)
(*  - a Python dict is a function whose DOMAIN is the set of its keys;     *)
(*  - a Python str that the code slices or concatenates is a sequence of   *)
(*    one-character strings; other texts are TLA+ strings (the emoji that  *)
(*    prefix some literals of the source are left out of the literals);    *)
(*  - a JSON number n is [int |-> n], a JSON string s in a numeric field   *)
(*    is [str |-> s], so that the comparisons and number formats of the    *)
(*    code can raise on the second as they do in Python;                   *)
(*  - datetime.now() reads the variable clock and advances it by one;      *)
(*  - the background functions are coroutines without an await, so once    *)
(*    one has started no other handler runs until it has ended: running    *)
(*    holds the execution in progress and disables every other action.     *)
(***************************************************************************)
EXTENDS Integers, Sequences, FiniteSets, TLC

VARIABLES
    case_results,      \* cases.py:19  the module-level dict, case id -> record
    background_tasks,  \* tasks handed to BackgroundTasks.add_task, not yet started
    running,           \* the background execution in progress, or NoRun
    clock,             \* the value the next datetime.now() returns
    issued,            \* the case ids returned by the submissions, in order
    polled,            \* case id -> what the watching client last noted for it:
                       \* the status in SpecPolled, the payload in SpecNoted
    last,              \* the outcome of the handler or execution that ran last
    legal_knowledge    \* probate_crew.py:25  self.legal_knowledge of the tool

vars == <<case_results, background_tasks, running, clock, issued, polled, last,
          legal_knowledge>>

(***************************************************************************)
(* Bounds.                                                                 *)
(***************************************************************************)
MaxSubmissions == 2    \* submissions accepted in one behaviour
NumUuids == 3          \* distinct values uuid.uuid4() may return
MaxEstateUnits == 26   \* estate values up to this many units of 100,000
MaxQueryWords == 2     \* words of a query put to the knowledge lookup

(***************************************************************************)
(* Python helpers.                                                         *)
(***************************************************************************)
\* d[k] = v on a dict
DictSet(d, k, v) == (k :> v) @@ d

\* d.get(k, default)
DictGet(d, k, default) == IF k \in DOMAIN d THEN d[k] ELSE default

\* s[:n] on a str
Slice(s, n) == SubSeq(s, 1, IF Len(s) < n THEN Len(s) ELSE n)

HexLower == <<"0", "1", "2", "3", "4", "5", "6", "7",
              "8", "9", "a", "b", "c", "d", "e", "f">>

HexUpper == <<"0", "1", "2", "3", "4", "5", "6", "7",
              "8", "9", "A", "B", "C", "D", "E", "F">>

\* str.upper() on one character of a hex string
UpperChar(c) ==
    IF \E i \in 1..16 : HexLower[i] = c
    THEN HexUpper[CHOOSE i \in 1..16 : HexLower[i] = c]
    ELSE c

\* str.upper() left out of the id expression
Upper_Omitted(s) == s

\* str.upper()
Upper(s) == [i \in 1..Len(s) |-> UpperChar(s[i])]

(***************************************************************************)
(* uuid.uuid4().hex: 32 lower-case hexadecimal characters, with the        *)
(* version nibble 4 at position 13 and a variant nibble 8..b at position   *)
(* 17.  The values are random; the model draws one of NumUuids values.     *)
(* Values u and u+2 agree on their first 8 characters and differ later,   *)
(* as two random values may.                                               *)
(***************************************************************************)
Uuid4Hex(u) ==
    [j \in 1..32 |->
        IF j <= 8 THEN HexLower[(((u % 2) * 11 + j * 3 + 9) % 16) + 1]
        ELSE IF j = 13 THEN "4"
        ELSE IF j = 17 THEN HexLower[9 + (u % 4)]
        ELSE HexLower[((u * 7 + j * 5) % 16) + 1]]

Uuids == 0..(NumUuids - 1)

\* case_id = f"PROB_{uuid.uuid4().hex[:8].upper()}" with the given prefix
MakeCaseId(prefix, u) == prefix \o Upper(Slice(Uuid4Hex(u), 8))

PROB == <<"P", "R", "O", "B", "_">>
DIV == <<"D", "I", "V", "_">>

(***************************************************************************)
(* Case inputs: the JSON objects a client may post.  The endpoints take    *)
(* Dict[str, Any], so a numeric field may hold a string.                   *)
(***************************************************************************)
ProbateInputs ==
    { [deceased_name |-> "John Smith", executor_name |-> "Jane Smith",
       estate_value |-> [int |-> 600000], property_value |-> [int |-> 450000],
       urgency_level |-> "HIGH"],
      [deceased_name |-> "Tom Roe",
       estate_value |-> [str |-> "unknown"], property_value |-> [int |-> 0]] }

DivorceInputs ==
    { [property_value |-> [int |-> 400000], marriage_duration |-> 12,
       children_count |-> 2, dispute_level |-> "LOW"] }

IsNumber(v) == "int" \in DOMAIN v

Zero == [int |-> 0]

\* the text the inference backend returns for a step (a sample: no branch of
\* the source depends on the text)
Texts == {[text |-> "Apply for the grant of probate."]}

\* the messages of the exceptions the inference backend may raise
BackendErrors == {"Connection error."}

\* the message of the exception a crew constructor may raise
CrewInitError == "Did not find openai_api_key"

(***************************************************************************)
(* Number formats of the f-strings.                                        *)
(***************************************************************************)
DecDigits == <<"0", "1", "2", "3", "4", "5", "6", "7", "8", "9">>

\* the decimal digits of n >= 0, grouped in threes by commas from the right
RECURSIVE GroupedDigits(_)
GroupedDigits(n) ==
    IF n < 1000
    THEN IF n < 10 THEN <<DecDigits[n + 1]>>
         ELSE IF n < 100 THEN <<DecDigits[(n \div 10) + 1], DecDigits[(n % 10) + 1]>>
         ELSE <<DecDigits[(n \div 100) + 1], DecDigits[((n \div 10) % 10) + 1],
                DecDigits[(n % 10) + 1]>>
    ELSE GroupedDigits(n \div 1000) \o
         <<",", DecDigits[((n % 1000) \div 100) + 1],
           DecDigits[((n \div 10) % 10) + 1], DecDigits[(n % 10) + 1]>>

\* f"{n:,}" on an int
FormatGrouped(n) ==
    IF n < 0 THEN <<"-">> \o GroupedDigits(0 - n) ELSE GroupedDigits(n)

\* round() of hundredths / 100 to the nearest integer, a tie going to the
\* even one, as the "f" format rounds the value it prints
RoundHalfEven(hundredths) ==
    LET q == hundredths \div 100
        r == hundredths % 100
    IN  IF r < 50 THEN q
        ELSE IF r > 50 THEN q + 1
        ELSE IF q % 2 = 0 THEN q ELSE q + 1

\* f"{x:,.0f}" on a number x given in hundredths
FormatGroupedRounded(hundredths) == FormatGrouped(RoundHalfEven(hundredths))

\* the largest power of two that is at most n, for n >= 1
Pow2Floor(n) ==
    LET RECURSIVE Up(_)
        Up(p) == IF 2 * p > n THEN p ELSE Up(2 * p)
    IN  Up(1)

(***************************************************************************)
(* property_value > estate_value * 0.7 (line 782).  0.7 is the double      *)
(* 0.7 - 0.4 * 2^-53, and the product is rounded to 53 significant bits.   *)
(* When 7/10 of the estate value is not an integer the rounded product     *)
(* stays on the same side of every integer as the exact one.  When it is   *)
(* an integer N, the product is N, unless 4N > 7 * 2^k for the power of    *)
(* two 2^k <= N < 2^(k+1): then the product is the double just below N.    *)
(***************************************************************************)
ExceedsSeventyPercent(property_value, estate_value) ==
    IF estate_value > 0 /\ 10 * property_value = 7 * estate_value
    THEN 4 * property_value > 7 * Pow2Floor(property_value)
    ELSE 10 * property_value > 7 * estate_value

(***************************************************************************)
(* probate_crew.py: UKLegalResearchTool.  The section names and the        *)
(* queries are strings the code searches and reformats, so they are        *)
(* sequences of characters; the text of a section is given by its heading. *)
(***************************************************************************)
\* the keys of the dict returned by _load_comprehensive_legal_knowledge
inheritance_tax_2024_25 ==
    <<"i", "n", "h", "e", "r", "i", "t", "a", "n", "c", "e", "_", "t", "a",
      "x", "_", "2", "0", "2", "4", "_", "2", "5">>

probate_process_2024 ==
    <<"p", "r", "o", "b", "a", "t", "e", "_", "p", "r", "o", "c", "e", "s",
      "s", "_", "2", "0", "2", "4">>

property_valuation_probate_2024 ==
    <<"p", "r", "o", "p", "e", "r", "t", "y", "_", "v", "a", "l", "u", "a",
      "t", "i", "o", "n", "_", "p", "r", "o", "b", "a", "t", "e", "_", "2",
      "0", "2", "4">>

estate_administration_best_practices ==
    <<"e", "s", "t", "a", "t", "e", "_", "a", "d", "m", "i", "n", "i", "s",
      "t", "r", "a", "t", "i", "o", "n", "_", "b", "e", "s", "t", "_", "p",
      "r", "a", "c", "t", "i", "c", "e", "s">>

gdpr_probate_compliance_2024 ==
    <<"g", "d", "p", "r", "_", "p", "r", "o", "b", "a", "t", "e", "_", "c",
      "o", "m", "p", "l", "i", "a", "n", "c", "e", "_", "2", "0", "2", "4">>

\* UKLegalResearchTool._load_comprehensive_legal_knowledge
_load_comprehensive_legal_knowledge ==
    (inheritance_tax_2024_25 :>
        "UK Inheritance Tax (2024/25 Tax Year) - Current Rates and Rules:") @@
    (probate_process_2024 :>
        "UK Probate Process (2024 Current Procedures):") @@
    (property_valuation_probate_2024 :>
        "Property Valuation for Probate (2024 Requirements):") @@
    (estate_administration_best_practices :>
        "Estate Administration Best Practices (2024):") @@
    (gdpr_probate_compliance_2024 :>
        "GDPR Compliance in Probate Administration (2024):")

\* keyword_mapping (lines 217-228), in the order a dict keeps its items
keyword_mapping ==
    << [ keyword |-> <<"i", "n", "h", "e", "r", "i", "t", "a", "n", "c", "e", " ", "t", "a", "x">>,
         sections |-> <<inheritance_tax_2024_25>> ],
       [ keyword |-> <<"i", "h", "t">>,
         sections |-> <<inheritance_tax_2024_25>> ],
       [ keyword |-> <<"t", "a", "x">>,
         sections |-> <<inheritance_tax_2024_25>> ],
       [ keyword |-> <<"p", "r", "o", "b", "a", "t", "e">>,
         sections |-> <<probate_process_2024, estate_administration_best_practices>> ],
       [ keyword |-> <<"e", "s", "t", "a", "t", "e">>,
         sections |-> <<estate_administration_best_practices, probate_process_2024>> ],
       [ keyword |-> <<"p", "r", "o", "p", "e", "r", "t", "y">>,
         sections |-> <<property_valuation_probate_2024>> ],
       [ keyword |-> <<"v", "a", "l", "u", "a", "t", "i", "o", "n">>,
         sections |-> <<property_valuation_probate_2024>> ],
       [ keyword |-> <<"g", "d", "p", "r">>,
         sections |-> <<gdpr_probate_compliance_2024>> ],
       [ keyword |-> <<"c", "o", "m", "p", "l", "i", "a", "n", "c", "e">>,
         sections |-> <<gdpr_probate_compliance_2024>> ],
       [ keyword |-> <<"a", "d", "m", "i", "n", "i", "s", "t", "r", "a", "t", "i", "o", "n">>,
         sections |-> <<estate_administration_best_practices>> ] >>

LettersLower == <<"a", "b", "c", "d", "e", "f", "g", "h", "i", "j", "k", "l", "m",
                  "n", "o", "p", "q", "r", "s", "t", "u", "v", "w", "x", "y", "z">>

LettersUpper == <<"A", "B", "C", "D", "E", "F", "G", "H", "I", "J", "K", "L", "M",
                  "N", "O", "P", "Q", "R", "S", "T", "U", "V", "W", "X", "Y", "Z">>

IsLetter(c) == \E i \in 1..26 : c = LettersLower[i] \/ c = LettersUpper[i]

\* str.lower() on one character
LowerLetter(c) ==
    IF \E i \in 1..26 : LettersUpper[i] = c
    THEN LettersLower[CHOOSE i \in 1..26 : LettersUpper[i] = c]
    ELSE c

\* str.upper() on one character
UpperLetter(c) ==
    IF \E i \in 1..26 : LettersLower[i] = c
    THEN LettersUpper[CHOOSE i \in 1..26 : LettersLower[i] = c]
    ELSE c

\* str.lower()
Lower(s) == [i \in 1..Len(s) |-> LowerLetter(s[i])]

\* sub in s, on two str
Contains(s, sub) ==
    \E i \in 0..(Len(s) - Len(sub)) : SubSeq(s, i + 1, i + Len(sub)) = sub

\* s.replace('_', ' ')
ReplaceUnderscores(s) == [i \in 1..Len(s) |-> IF s[i] = "_" THEN " " ELSE s[i]]

\* str.title(): a letter that follows no letter is made upper case, a letter
\* that follows a letter lower case
Title(s) ==
    [i \in 1..Len(s) |->
        IF i = 1 \/ ~IsLetter(s[i - 1])
        THEN UpperLetter(s[i]) ELSE LowerLetter(s[i])]

\* lines 233-235: the sections of one keyword are appended to
\* relevant_sections, each one unless it is missing from the knowledge base
\* or already in the list
RECURSIVE AppendSections(_, _, _)
AppendSections(relevant_sections, sections, knowledge) ==
    IF sections = <<>> THEN relevant_sections
    ELSE LET section == Head(sections)
         IN  AppendSections(
                 IF /\ section \in DOMAIN knowledge
                    /\ \A i \in 1..Len(relevant_sections) :
                          relevant_sections[i][1] # section
                 THEN Append(relevant_sections,
                             <<section, knowledge[section]>>)
                 ELSE relevant_sections,
                 Tail(sections), knowledge)

\* lines 231-235: the loop over keyword_mapping.items(), from item k on
RECURSIVE MatchKeywords(_, _, _, _)
MatchKeywords(relevant_sections, k, query_lower, knowledge) ==
    IF k > Len(keyword_mapping) THEN relevant_sections
    ELSE MatchKeywords(
             IF Contains(query_lower, keyword_mapping[k].keyword)
             THEN AppendSections(relevant_sections, keyword_mapping[k].sections,
                                 knowledge)
             ELSE relevant_sections,
             k + 1, query_lower, knowledge)

\* lines 245-249: the response is the concatenation of these pieces
RECURSIVE FormatSections(_)
FormatSections(relevant_sections) ==
    IF relevant_sections = <<>> THEN <<>>
    ELSE << "**", Title(ReplaceUnderscores(Head(relevant_sections)[1])), ":**\n",
            Head(relevant_sections)[2], "\n\n" >>
         \o FormatSections(Tail(relevant_sections))

ImportantNote ==
    "\n**Important Note:** This information is for guidance only. Always consult qualified legal professionals for specific advice on individual cases."

\* a lookup that keeps every collected section in the response
search_legal_info_Unlimited(knowledge, query) ==
    LET matched == MatchKeywords(<<>>, 1, Lower(query), knowledge)
        relevant_sections ==
            IF matched = <<>>
            THEN << <<probate_process_2024, knowledge[probate_process_2024]>>,
                    <<inheritance_tax_2024_25,
                      knowledge[inheritance_tax_2024_25]>> >>
            ELSE matched
    IN  <<"Legal Research Results for: '", query, "'\n\n">>
        \o FormatSections(relevant_sections)
        \o <<ImportantNote>>

\* a lookup without the default pair
search_legal_info_NoDefault(knowledge, query) ==
    LET matched == MatchKeywords(<<>>, 1, Lower(query), knowledge)
    IN  <<"Legal Research Results for: '", query, "'\n\n">>
        \o FormatSections(Slice(matched, 2))
        \o <<ImportantNote>>

\* UKLegalResearchTool.search_legal_info, with self.legal_knowledge given
search_legal_info(knowledge, query) ==
    LET matched == MatchKeywords(<<>>, 1, Lower(query), knowledge)
        relevant_sections ==
            IF matched = <<>>
            THEN << <<probate_process_2024, knowledge[probate_process_2024]>>,
                    <<inheritance_tax_2024_25,
                      knowledge[inheritance_tax_2024_25]>> >>
            ELSE matched
    IN  <<"Legal Research Results for: '", query, "'\n\n">>
        \o FormatSections(Slice(relevant_sections, 2))
        \o <<ImportantNote>>

\* str() of an int: its decimal digits, after a minus sign when negative
RECURSIVE PlainDigits(_)
PlainDigits(n) ==
    IF n < 10 THEN <<DecDigits[n + 1]>>
    ELSE Append(PlainDigits(n \div 10), DecDigits[(n % 10) + 1])

StrOfInt(n) == IF n < 0 THEN <<"-">> \o PlainDigits(0 - n) ELSE PlainDigits(n)

\* a query for the legal context that holds the estate value alone
LegalContextQuery_ValueOnly(case_data) ==
    StrOfInt(DictGet(case_data, "estate_value", [int |-> 0]).int)

\* the query of process_probate_case for the legal context (line 409):
\* f"probate estate administration inheritance tax {estate_value}"
LegalContextQuery(case_data) ==
    << "p", "r", "o", "b", "a", "t", "e", " ", "e", "s", "t", "a", "t", "e", " ",
       "a", "d", "m", "i", "n", "i", "s", "t", "r", "a", "t", "i", "o", "n", " ",
       "i", "n", "h", "e", "r", "i", "t", "a", "n", "c", "e", " ",
       "t", "a", "x", " " >>
    \o StrOfInt(DictGet(case_data, "estate_value", [int |-> 0]).int)

(***************************************************************************)
(* probate_crew.py                                                         *)
(***************************************************************************)
\* an enhancement that adds nothing to the case data
_enhance_case_with_context_Unflagged(case_data) ==
    [ok |-> TRUE, value |-> case_data]

\* ProbateCrew._enhance_case_with_context; a raise is [ok |-> FALSE, ...]
_enhance_case_with_context(case_data) ==
    LET estate_value == DictGet(case_data, "estate_value", Zero)
        property_value == DictGet(case_data, "property_value", Zero)
        iht ==
            IF estate_value.int > 500000
            THEN ("iht_likely" :> TRUE) @@
                 ("complexity_factors" :>
                    <<"High estate value", "IHT planning required">>)
            ELSE IF estate_value.int > 325000
            THEN ("iht_likely" :> TRUE) @@
                 ("complexity_factors" :>
                    <<"Potential IHT liability",
                      "Residence nil-rate band assessment needed">>)
            ELSE ("iht_likely" :> FALSE) @@
                 ("complexity_factors" :>
                    <<"Below IHT threshold", "Simplified process possible">>)
        property ==
            IF property_value.int > 0
            THEN ("property_considerations" :>
                    <<"Professional valuation required",
                      "Title deed verification needed",
                      "Property transfer procedures apply">>)
            ELSE <<>>
    IN  IF ~IsNumber(estate_value) \/ ~IsNumber(property_value)
        THEN [ok |-> FALSE,
              error |-> "'>' not supported between instances of 'str' and 'int'"]
        ELSE [ok |-> TRUE, value |-> property @@ iht @@ case_data]

\* a fallback payload that names no case and drops the message of the error
_generate_fallback_results_Unnamed(case_data, error, now) ==
    [ok |-> TRUE,
     value |->
       [ case_id |-> <<>>,
         processing_status |-> "completed_with_fallback",
         error |-> <<"CrewAI processing error: ", "">>,
         summary |->
           [ case_type |-> "Probate",
             deceased |-> DictGet(case_data, "deceased_name", "None"),
             status |-> "Manual review required",
             fallback_mode |-> TRUE ],
         next_steps |->
           << "Contact qualified legal advisor for immediate manual review" >>,
         processed_at |-> now ]]

\* ProbateCrew._generate_fallback_results (lines 931-960); now is its
\* datetime.now(), and a raise is [ok |-> FALSE, ...]: the estate value of
\* the summary is formatted with "," (line 940), which a str does not take.
\* Every entry of the dict is in the payload.
_generate_fallback_results(case_data, error, now) ==
    LET estate_value == DictGet(case_data, "estate_value", Zero)
    IN  IF ~IsNumber(estate_value)
        THEN [ok |-> FALSE, error |-> "Cannot specify ',' with 's'."]
        ELSE
        [ok |-> TRUE,
         value |->
           [ case_id |-> DictGet(case_data, "case_id", "None"),
             processing_status |-> "completed_with_fallback",
             error |-> <<"CrewAI processing error: ", error>>,
             summary |->
               [ case_type |-> "Probate",
                 deceased |-> DictGet(case_data, "deceased_name", "None"),
                 estate_value |-> <<"£">> \o FormatGrouped(estate_value.int),
                 status |-> "Manual review required",
                 fallback_mode |-> TRUE ],
             next_steps |->
               << "Contact qualified legal advisor for immediate manual review",
                  "Prepare basic probate documentation checklist",
                  "Obtain professional property valuation",
                  "Review estate assets and liabilities comprehensively",
                  "Contact financial institutions for asset information" >>,
             recommendations |->
               << "Seek professional legal advice immediately due to processing error",
                  "Gather all estate documentation for manual review",
                  "Consider professional estate administration service",
                  "Ensure all deadlines are monitored manually",
                  "Implement backup record-keeping procedures" >>,
             processed_at |-> now,
             fallback_reason |->
               "AI processing temporarily unavailable - manual review recommended" ]]

\* ProbateCrew._assess_complexity; a raise is [ok |-> FALSE, ...]
_assess_complexity(case_data) ==
    LET estate_value == DictGet(case_data, "estate_value", Zero)
        property_value == DictGet(case_data, "property_value", Zero)
        value_score ==
            IF estate_value.int > 2000000 THEN 3
            ELSE IF estate_value.int > 1000000 THEN 2
            ELSE IF estate_value.int > 500000 THEN 1
            ELSE 0
        property_score ==
            IF ExceedsSeventyPercent(property_value.int, estate_value.int)
            THEN 1 ELSE 0
        urgency_score ==
            IF DictGet(case_data, "urgency_level", "None") = "HIGH" THEN 1 ELSE 0
        complexity_score == value_score + property_score + urgency_score
    IN  IF ~IsNumber(estate_value)
        THEN [ok |-> FALSE,
              error |-> "'>' not supported between instances of 'str' and 'int'"]
        ELSE IF ~IsNumber(property_value)
        THEN [ok |-> FALSE,
              error |-> "'>' not supported between instances of 'str' and 'float'"]
        ELSE [ok |-> TRUE,
              value |-> IF complexity_score >= 4 THEN "HIGH"
                        ELSE IF complexity_score >= 2 THEN "MEDIUM"
                        ELSE "LOW"]

\* lines 888-913 with total_threshold given: the amounts of the tax analysis
\* (the entries that are the same fixed text in every payload are left out);
\* potential_iht is kept in hundredths, (estate_value - total_threshold) * 0.4
\* being 40 hundredths for each unit of the excess
TaxAnalysis(case_data, nil_rate_band, residence_band) ==
    LET estate_value == DictGet(case_data, "estate_value", Zero)
        property_value == DictGet(case_data, "property_value", Zero)
        total_threshold == nil_rate_band + residence_band
        excess == (estate_value.int - total_threshold) * 40
        potential_iht == IF excess > 0 THEN excess ELSE 0
    IN  IF ~IsNumber(estate_value)
        THEN [ok |-> FALSE,
              error |-> "unsupported operand type(s) for -: 'str' and 'int'"]
        ELSE IF ~IsNumber(property_value)
        THEN [ok |-> FALSE, error |-> "Cannot specify ',' with 's'."]
        ELSE [ok |-> TRUE,
              value |->
                [ estate_value |-> <<"£">> \o FormatGrouped(estate_value.int),
                  property_value |-> <<"£">> \o FormatGrouped(property_value.int),
                  nil_rate_band |-> <<"£">> \o FormatGrouped(nil_rate_band),
                  residence_nil_rate_band |-> <<"£">> \o FormatGrouped(residence_band),
                  combined_threshold |-> <<"£">> \o FormatGrouped(total_threshold),
                  potential_iht |-> <<"£">> \o FormatGroupedRounded(potential_iht),
                  iht_rate |-> "40% on excess above threshold",
                  payment_deadline |-> "6 months from death" ]]

\* a tax analysis that leaves the residence band out of the threshold
_extract_tax_info_NilRateOnly(case_data, crew_result) ==
    TaxAnalysis(case_data, 325000, 0)

\* ProbateCrew._extract_tax_info; a raise is [ok |-> FALSE, ...]
_extract_tax_info(case_data, crew_result) ==
    TaxAnalysis(case_data, 325000, 175000)

\* ProbateCrew._extract_next_steps
_extract_next_steps ==
    << "Priority 1: Gather death certificate and will documents",
       "Priority 1: Obtain professional property valuation (RICS qualified)",
       "Priority 2: Prepare probate application with current forms",
       "Priority 2: Contact banks and financial institutions for asset details",
       "Priority 3: Schedule consultation with qualified legal advisor",
       "Priority 3: Review inheritance tax planning options and deadlines",
       "Priority 4: Verify beneficiary details and contact information" >>

\* a findings list that quotes the text of the backend
_extract_key_findings_Quoting(crew_result) == <<crew_result.text>>

\* ProbateCrew._extract_key_findings (lines 836-845)
_extract_key_findings(crew_result) ==
    << "Comprehensive document analysis completed with detailed recommendations",
       "Legal strategy developed with current UK probate law compliance",
       "Inheritance tax calculation completed with optimization strategies",
       "GDPR compliance verified with current ICO guidance",
       "Master case management plan created with integrated timeline",
       "Risk assessment completed with specific mitigation strategies" >>

\* ProbateCrew._extract_timeline (lines 859-867)
_extract_timeline(crew_result) ==
    [ weeks_1_4 |-> "Document collection, asset identification, and initial valuations",
      weeks_5_8 |-> "Probate application preparation and submission to court",
      weeks_9_20 |-> "Court processing, grant issuance, and asset access",
      weeks_21_40 |-> "Asset realization, debt payment, and beneficiary distribution",
      weeks_41_52 |-> "Final accounts preparation and case closure" ]

\* ProbateCrew._extract_costs (lines 869-878)
_extract_costs(crew_result) ==
    [ court_fees |-> "£273 (estates over £5,000)",
      legal_fees |-> "£2,000 - £8,000 (complexity dependent)",
      valuation_costs |-> "£300 - £1,000 (property type dependent)",
      professional_fees |-> "£500 - £2,000 (accountant, surveyor fees)",
      administrative_costs |-> "£200 - £500 (copies, postage, etc.)",
      total_estimate |-> "£3,275 - £11,773" ]

\* ProbateCrew._extract_compliance_score (lines 915-917)
_extract_compliance_score(crew_result) == 94

\* ProbateCrew._structure_probate_results; now is its datetime.now().  It is
\* called on the enhanced case data, whose amounts are numbers, so that the
\* complexity and the tax analysis are values.  The entries that are the
\* same fixed list in every payload and that no statement is about
\* (recommendations, crew_agents, tools_used) are left out of the payload.
_structure_probate_results(case_data, crew_result, now) ==
    [ case_id |-> DictGet(case_data, "case_id", "None"),
      processing_status |-> "completed",
      crew_analysis |-> crew_result,
      summary |->
        [ case_type |-> "Probate",
          deceased |-> DictGet(case_data, "deceased_name", "None"),
          executor |-> DictGet(case_data, "executor_name", "None"),
          estate_value |->
            <<"£">> \o FormatGrouped(DictGet(case_data, "estate_value", Zero).int),
          property_value |->
            <<"£">> \o FormatGrouped(DictGet(case_data, "property_value", Zero).int),
          complexity |-> _assess_complexity(case_data).value,
          estimated_duration |-> "16-24 weeks",
          ai_confidence |-> "95%",
          iht_likely |-> DictGet(case_data, "iht_likely", FALSE) ],
      key_findings |-> _extract_key_findings(crew_result),
      next_steps |-> _extract_next_steps,
      timeline |-> _extract_timeline(crew_result),
      cost_estimates |-> _extract_costs(crew_result),
      tax_analysis |-> _extract_tax_info(case_data, crew_result).value,
      compliance_score |-> _extract_compliance_score(crew_result),
      processed_at |-> now ]

\* a tasks list in which tax_calculation_task is placed before
\* legal_strategy_task
ProbateTasks_TaxFirst ==
    << "document_analysis_task", "tax_calculation_task", "legal_strategy_task",
       "compliance_task", "case_management_task" >>

\* the tasks list of the Crew built in process_probate_case
ProbateTasks ==
    << "document_analysis_task", "legal_strategy_task", "tax_calculation_task",
       "compliance_task", "case_management_task" >>

\* context lists in which legal_strategy_task names the later
\* tax_calculation_task
ProbateContext_Forward ==
    [ document_analysis_task |-> <<>>,
      legal_strategy_task |-> <<"document_analysis_task", "tax_calculation_task">>,
      tax_calculation_task |-> <<"document_analysis_task", "legal_strategy_task">>,
      compliance_task |-> <<"document_analysis_task">>,
      case_management_task |->
        <<"document_analysis_task", "legal_strategy_task",
          "tax_calculation_task", "compliance_task">> ]

\* the context=[...] argument of each Task built in process_probate_case
\* (document_analysis_task is built without one)
ProbateContext ==
    [ document_analysis_task |-> <<>>,
      legal_strategy_task |-> <<"document_analysis_task">>,
      tax_calculation_task |-> <<"document_analysis_task", "legal_strategy_task">>,
      compliance_task |-> <<"document_analysis_task">>,
      case_management_task |->
        <<"document_analysis_task", "legal_strategy_task",
          "tax_calculation_task", "compliance_task">> ]

\* the memory argument of the Crew built in process_probate_case (line 717;
\* each of its agents is built with memory=True as well)
ProbateMemory == TRUE

(***************************************************************************)
(* divorce_crew.py                                                         *)
(***************************************************************************)
\* the f-strings of the Task descriptions format property_value with ":,"
DivorcePromptError(case_data) ==
    IF IsNumber(DictGet(case_data, "property_value", Zero))
    THEN "none"
    ELSE "Cannot specify ',' with 's'."

\* DivorceCrew._create_summary (divorce_crew.py lines 254-263); a raise is
\* [ok |-> FALSE, ...]: the property value is formatted with "," (line 259),
\* which a str does not take
_create_summary(case_data, result) ==
    LET property_value == DictGet(case_data, "property_value", Zero)
    IN  IF ~IsNumber(property_value)
        THEN [ok |-> FALSE, error |-> "Cannot specify ',' with 's'."]
        ELSE [ok |-> TRUE,
              value |->
                [ case_type |-> "Divorce",
                  marriage_duration |->
                    <<DictGet(case_data, "marriage_duration", 0), " years">>,
                  property_value |-> <<"£">> \o FormatGrouped(property_value.int),
                  children |-> DictGet(case_data, "children_count", 0),
                  complexity |-> "Medium",
                  estimated_duration |-> "6-12 months" ]]

\* DivorceCrew._extract_next_steps
_extract_next_steps_divorce ==
    << "Complete financial disclosure forms",
       "Get professional property valuation",
       "Consider children's needs and preferences",
       "Schedule mediation session",
       "Consult with family law solicitor" >>

\* the dict returned by DivorceCrew.process_divorce_case, without the fixed
\* settlement_options list; the prompts (line 104) have formatted the
\* property value before, so that the summary is a value here
DivorceResults(case_data, result) ==
    [ case_id |-> DictGet(case_data, "case_id", "None"),
      status |-> "completed",
      ai_analysis |-> result,
      summary |-> _create_summary(case_data, result).value,
      next_steps |-> _extract_next_steps_divorce ]

\* the tasks list of the Crew built in process_divorce_case
DivorceTasks ==
    <<"financial_task", "legal_task", "property_task", "mediation_task">>

\* the context=[...] argument of each Task built in process_divorce_case
\* (financial_task is built without one)
DivorceContext ==
    [ financial_task |-> <<>>,
      legal_task |-> <<"financial_task">>,
      property_task |-> <<"financial_task">>,
      mediation_task |-> <<"financial_task", "legal_task", "property_task">> ]

\* the Crew built in process_divorce_case has no memory argument, and
\* neither have its agents
DivorceMemory == FALSE

(***************************************************************************)
(* cases.py: the state after import and the submission handlers.           *)
(***************************************************************************)
NoRun == [task |-> "none"]

Init ==
    /\ case_results = <<>>
    /\ background_tasks = {}
    /\ running = NoRun
    /\ clock = 0
    /\ issued = <<>>
    /\ polled = <<>>
    /\ last = [op |-> "import"]
    /\ legal_knowledge = _load_comprehensive_legal_knowledge

\* lines 28-49 and 61-82: the body shared by the two submission handlers
CreateCase(op, prefix, case_type, func, posted, u) ==
    LET case_id == MakeCaseId(prefix, u)
        case_data == DictSet(posted, "case_id", case_id)
    IN  /\ running = NoRun
        /\ Len(issued) < MaxSubmissions
        /\ case_results' =
             DictSet(case_results, case_id,
                     [ status |-> "processing",
                       created_at |-> clock,
                       case_type |-> case_type,
                       case_data |-> case_data ])
        /\ clock' = clock + 1
        /\ background_tasks' = background_tasks \cup
             { [ n |-> Len(issued) + 1, func |-> func,
                 case_id |-> case_id, case_data |-> case_data ] }
        /\ issued' = Append(issued, case_id)
        /\ last' = [ op |-> op, code |-> 200,
                     case_id |-> case_id, status |-> "processing" ]
        /\ UNCHANGED <<running, polled, legal_knowledge>>

create_probate_case ==
    \E posted \in ProbateInputs, u \in Uuids :
        CreateCase("create_probate_case", PROB, "probate",
                   "process_probate_background", posted, u)

create_divorce_case ==
    \E posted \in DivorceInputs, u \in Uuids :
        CreateCase("create_divorce_case", DIV, "divorce",
                   "process_divorce_background", posted, u)

(***************************************************************************)
(* cases.py: the query handlers.                                           *)
(***************************************************************************)
\* the ids a client asks for: one probate id and one divorce id, each of
\* them unknown to the store until a submission has drawn it
QueryIds ==
    {MakeCaseId(PROB, 0), MakeCaseId(DIV, 0)}

\* a status query whose progress string says complete only for a completed
\* job
StatusResponse_CompleteOnly(case_id) ==
    IF case_id \notin DOMAIN case_results
    THEN [ op |-> "get_case_status", code |-> 404,
           case_id |-> case_id, detail |-> "Case not found" ]
    ELSE LET case == case_results[case_id]
         IN  [ op |-> "get_case_status", code |-> 200,
               case_id |-> case_id,
               status |-> case["status"],
               case_type |-> case["case_type"],
               created_at |-> case["created_at"],
               progress |->
                  IF case["status"] # "completed"
                  THEN "AI agents are working..."
                  ELSE "Complete" ]

\* get_case_status, lines 92-103: the JSON it returns or the 404 it raises
StatusResponse(case_id) ==
    IF case_id \notin DOMAIN case_results
    THEN [ op |-> "get_case_status", code |-> 404,
           case_id |-> case_id, detail |-> "Case not found" ]
    ELSE LET case == case_results[case_id]
         IN  [ op |-> "get_case_status", code |-> 200,
               case_id |-> case_id,
               status |-> case["status"],
               case_type |-> case["case_type"],
               created_at |-> case["created_at"],
               progress |->
                  IF case["status"] = "processing"
                  THEN "AI agents are working..."
                  ELSE "Complete" ]

get_case_status(case_id) ==
    /\ running = NoRun
    /\ last' = StatusResponse(case_id)
    /\ UNCHANGED <<case_results, background_tasks, running, clock, issued, polled,
                    legal_knowledge>>

\* the same handler, with the client noting the status it was given
get_case_status_polled(case_id) ==
    /\ running = NoRun
    /\ last' = StatusResponse(case_id)
    /\ polled' = IF last'.code = 200
                 THEN DictSet(polled, case_id, last'.status)
                 ELSE polled
    /\ UNCHANGED <<case_results, background_tasks, running, clock, issued,
                    legal_knowledge>>

\* a result query that reads the status with a default instead of testing
\* membership, answering 400 for an unknown id
ResultsResponse_NoMembershipTest(case_id) ==
    LET case == DictGet(case_results, case_id, [status |-> "processing"])
    IN  IF case["status"] # "completed"
        THEN [ op |-> "get_case_results", code |-> 400,
               case_id |-> case_id, detail |-> "Case is still processing" ]
        ELSE [ op |-> "get_case_results", code |-> 200,
               case_id |-> case_id,
               results |-> DictGet(case, "results", <<>>),
               status |-> "completed" ]

\* a result query that refuses only the status processing
ResultsResponse_NotProcessing(case_id) ==
    IF case_id \notin DOMAIN case_results
    THEN [ op |-> "get_case_results", code |-> 404,
           case_id |-> case_id, detail |-> "Case not found" ]
    ELSE LET case == case_results[case_id]
         IN  IF case["status"] = "processing"
             THEN [ op |-> "get_case_results", code |-> 400,
                    case_id |-> case_id,
                    detail |-> "Case is still processing" ]
             ELSE [ op |-> "get_case_results", code |-> 200,
                    case_id |-> case_id,
                    results |-> DictGet(case, "results", <<>>),
                    status |-> "completed" ]

\* get_case_results, lines 110-122: the JSON it returns or the error it raises
ResultsResponse(case_id) ==
    IF case_id \notin DOMAIN case_results
    THEN [ op |-> "get_case_results", code |-> 404,
           case_id |-> case_id, detail |-> "Case not found" ]
    ELSE LET case == case_results[case_id]
         IN  IF case["status"] # "completed"
             THEN [ op |-> "get_case_results", code |-> 400,
                    case_id |-> case_id,
                    detail |-> "Case is still processing" ]
             ELSE [ op |-> "get_case_results", code |-> 200,
                    case_id |-> case_id,
                    results |-> DictGet(case, "results", <<>>),
                    status |-> "completed" ]

\* a result query that removes the record of the job it has delivered
get_case_results_Consuming(case_id) ==
    /\ running = NoRun
    /\ last' = ResultsResponse(case_id)
    /\ case_results' =
         IF last'.code = 200
         THEN [id \in DOMAIN case_results \ {case_id} |-> case_results[id]]
         ELSE case_results
    /\ UNCHANGED <<background_tasks, running, clock, issued, polled,
                    legal_knowledge>>

\* get_case_results, lines 105-122: the handler reads case_results only
get_case_results(case_id) ==
    /\ running = NoRun
    /\ last' = ResultsResponse(case_id)
    /\ UNCHANGED <<case_results, background_tasks, running, clock, issued, polled,
                    legal_knowledge>>

\* the same handler, with the client noting the payload it was given
get_case_results_noted(case_id) ==
    /\ running = NoRun
    /\ last' = ResultsResponse(case_id)
    /\ polled' = IF last'.code = 200
                 THEN DictSet(polled, case_id, last'.results)
                 ELSE polled
    /\ UNCHANGED <<case_results, background_tasks, running, clock, issued,
                    legal_knowledge>>

(***************************************************************************)
(* cases.py: the background functions.  An execution starts when the       *)
(* event loop takes its task, constructs the crew and assembles the        *)
(* prompts, then calls the inference backend once per task of the crew, in *)
(* the order of the tasks list (Process.sequential); kickoff returns the   *)
(* output of the last task.                                                *)
(***************************************************************************)
\* lines 139-141 and 164-166: the writes after the crew has returned
StoreCompleted(store, case_id, results, now) ==
    [store EXCEPT ![case_id] =
        DictSet(DictSet(DictSet(@, "status", "completed"),
                        "results", results),
                "completed_at", now)]

\* an except branch that writes a status outside the four values
StoreError_Failed(store, case_id, e) ==
    [store EXCEPT ![case_id] =
        DictSet(DictSet(@, "status", "failed"), "error", e)]

\* an except branch that discards the record of the failed job
StoreError_Deleting(store, case_id, e) ==
    [id \in DOMAIN store \ {case_id} |-> store[id]]

\* lines 147-148 and 172-173: the writes of the except branch
StoreError(store, case_id, e) ==
    [store EXCEPT ![case_id] =
        DictSet(DictSet(@, "status", "error"), "error", e)]

\* what an execution reports when it ends or advances
Report(t, outcome, detail) ==
    [ op |-> t.func, n |-> t.n, case_id |-> t.case_id,
      outcome |-> outcome, detail |-> detail ]

\* an except branch that lets the exception escape: nothing is written
EndInError_Escapes(t, outcome, e) ==
    /\ running' = NoRun
    /\ last' = Report(t, outcome, e)
    /\ UNCHANGED <<case_results, clock>>

\* an execution ends in the except branch of its background function
EndInError(t, outcome, e) ==
    /\ case_results' = StoreError(case_results, t.case_id, e)
    /\ running' = NoRun
    /\ last' = Report(t, outcome, e)
    /\ UNCHANGED clock

\* the position of the task named name in the tasks list
TaskIndex(tasks, name) == CHOOSE i \in 1..Len(tasks) : tasks[i] = name

\* the elements of a list
Elements(list) == {list[i] : i \in 1..Len(list)}

\* what the memory of a crew can add to the prompt of the task that follows
\* the recorded outputs: a crew built with memory=True keeps the output of
\* every finished task and looks its store up when the prompt of a task is
\* put together, so that any of the recorded outputs can be recalled; which
\* ones are is decided by the lookup of the library.  The outputs of the
\* context list are in the prompt anyway, the sets are those of the other
\* finished tasks.  A crew built without memory recalls nothing.
Recallable(memory, tasks, contexts, outputs) ==
    LET current == tasks[Len(outputs) + 1]
        others == {tasks[i] : i \in 1..Len(outputs)}
                     \ Elements(contexts[current])
    IN  IF memory THEN SUBSET others ELSE {{}}

\* an execution that has recorded outputs and has its next task in progress:
\* Process.sequential takes the tasks in the order of the tasks list, a task
\* is handed the recorded outputs of the tasks of its context list, and the
\* memory of the crew adds the recorded outputs of the tasks in recalled; a
\* recorded output names the task that produced it and holds the text returned
RunState(t, case_data, tasks, contexts, outputs, recalled) ==
    LET step == Len(outputs) + 1
        current == tasks[step]
        handed == { name \in Elements(contexts[current]) :
                      TaskIndex(tasks, name) <= Len(outputs) }
    IN  [ task |-> t, case_data |-> case_data, outputs |-> outputs,
          step |-> step, current |-> current,
          context |-> [name \in handed |-> outputs[TaskIndex(tasks, name)]],
          memory |-> [name \in recalled |-> outputs[TaskIndex(tasks, name)]] ]

\* the mapping process_probate_case was given, once _enhance_case_with_context
\* has returned enhanced_data without having copied it first
InputAfterEnhance_NoCopy(case_data, enhanced_data) == enhanced_data

\* the mapping process_probate_case was given, once _enhance_case_with_context
\* has returned enhanced_data: line 740 copies case_data, and the assignments
\* of lines 746-762 go to the copy.  The dict is the one create_probate_case
\* stored as the record's case_data (cases.py lines 37 and 41).
InputAfterEnhance(case_data, enhanced_data) == case_data


\* process_probate_background up to the first call of the backend:
\* ProbateCrew() (line 133), then process_probate_case lines 399-720
ProbateBegin(t, crew_ok) ==
    LET enhanced == _enhance_case_with_context(t.case_data)
        given == InputAfterEnhance(t.case_data, enhanced.value)
    IN  /\ running = NoRun
        /\ t \in background_tasks
        /\ t.func = "process_probate_background"
        /\ background_tasks' = background_tasks \ {t}
        /\ IF ~crew_ok
           THEN EndInError(t, "crew_raised", CrewInitError)
           ELSE IF ~enhanced.ok
           THEN EndInError(t, "input_raised", enhanced.error)
           ELSE /\ running' = RunState([t EXCEPT !.case_data = given],
                                        enhanced.value, ProbateTasks,
                                        ProbateContext, <<>>, {})
                /\ case_results' =
                     [case_results EXCEPT ![t.case_id] =
                        IF @["case_data"] = t.case_data
                        THEN DictSet(@, "case_data", given) ELSE @]
                /\ last' = Report(t, "started", "")
                /\ UNCHANGED clock
        /\ UNCHANGED <<issued, polled, legal_knowledge>>

\* the backend returns the text x for the current task of the probate crew,
\* and the memory of the crew recalls the outputs of the tasks in recalled
\* for the task that follows; after the last task: lines 725-731 of
\* probate_crew.py, 139-141 of cases.py
ProbateStepReturns(x, recalled) ==
    /\ running # NoRun
    /\ running.task.func = "process_probate_background"
    /\ LET t == running.task
           outputs == Append(running.outputs,
                             [task |-> running.current, raw |-> x])
       IN  IF Len(outputs) < Len(ProbateTasks)
           THEN /\ recalled \in Recallable(ProbateMemory, ProbateTasks,
                                           ProbateContext, outputs)
                /\ running' = RunState(t, running.case_data, ProbateTasks,
                                        ProbateContext, outputs, recalled)
                /\ last' = Report(t, "step_returned", "")
                /\ UNCHANGED <<case_results, clock>>
           ELSE /\ recalled = {}
                /\ case_results' =
                     StoreCompleted(case_results, t.case_id,
                        _structure_probate_results(running.case_data, x, clock),
                        clock + 1)
                /\ clock' = clock + 2
                /\ running' = NoRun
                /\ last' = Report(t, "returned", "")
    /\ UNCHANGED <<background_tasks, issued, polled, legal_knowledge>>

\* a backend run outside the try of process_probate_case: the raise reaches
\* the except branch of the background function
ProbateStepRaises_Unguarded(e) ==
    /\ running # NoRun
    /\ running.task.func = "process_probate_background"
    /\ EndInError(running.task, "backend_raised", e)
    /\ UNCHANGED <<background_tasks, issued, polled, legal_knowledge>>

\* an except branch that schedules the execution again instead of ending it
ProbateStepRaises_Retry(e) ==
    /\ running # NoRun
    /\ running.task.func = "process_probate_background"
    /\ background_tasks' = background_tasks \cup {running.task}
    /\ running' = NoRun
    /\ last' = Report(running.task, "backend_raised", e)
    /\ UNCHANGED <<case_results, clock, issued, polled, legal_knowledge>>

\* the backend raises e on the current task of the probate crew:
\* lines 733-736 of probate_crew.py, then 139-141 of cases.py; a raise of
\* the fallback generation is not caught in process_probate_case and reaches
\* lines 145-148 of cases.py
ProbateStepRaises(e) ==
    /\ running # NoRun
    /\ running.task.func = "process_probate_background"
    /\ LET t == running.task
           fallback == _generate_fallback_results(running.case_data, e, clock)
       IN  IF fallback.ok
           THEN /\ case_results' =
                     StoreCompleted(case_results, t.case_id, fallback.value,
                                    clock + 1)
                /\ clock' = clock + 2
                /\ running' = NoRun
                /\ last' = Report(t, "backend_raised", e)
           ELSE EndInError(t, "fallback_raised", fallback.error)
    /\ UNCHANGED <<background_tasks, issued, polled, legal_knowledge>>

process_probate_background ==
    \/ \E t \in background_tasks, crew_ok \in BOOLEAN : ProbateBegin(t, crew_ok)
    \/ \E x \in Texts, recalled \in SUBSET Elements(ProbateTasks) :
          ProbateStepReturns(x, recalled)
    \/ \E e \in BackendErrors : ProbateStepRaises(e)

\* process_divorce_background up to the first call of the backend:
\* DivorceCrew() (line 158), then process_divorce_case lines 90-236
DivorceBegin(t, crew_ok) ==
    LET prompt_error == DivorcePromptError(t.case_data)
    IN  /\ running = NoRun
        /\ t \in background_tasks
        /\ t.func = "process_divorce_background"
        /\ background_tasks' = background_tasks \ {t}
        /\ IF ~crew_ok
           THEN EndInError(t, "crew_raised", CrewInitError)
           ELSE IF prompt_error # "none"
           THEN EndInError(t, "input_raised", prompt_error)
           ELSE /\ running' = RunState(t, t.case_data, DivorceTasks,
                                        DivorceContext, <<>>, {})
                /\ last' = Report(t, "started", "")
                /\ UNCHANGED <<case_results, clock>>
        /\ UNCHANGED <<issued, polled, legal_knowledge>>

\* the backend returns the text x for the current task of the divorce crew,
\* whose crew has no memory to recall from; after the last task: lines
\* 241-252 of divorce_crew.py, 164-166 of cases.py
DivorceStepReturns(x, recalled) ==
    /\ running # NoRun
    /\ running.task.func = "process_divorce_background"
    /\ LET t == running.task
           outputs == Append(running.outputs,
                             [task |-> running.current, raw |-> x])
       IN  IF Len(outputs) < Len(DivorceTasks)
           THEN /\ recalled \in Recallable(DivorceMemory, DivorceTasks,
                                           DivorceContext, outputs)
                /\ running' = RunState(t, running.case_data, DivorceTasks,
                                        DivorceContext, outputs, recalled)
                /\ last' = Report(t, "step_returned", "")
                /\ UNCHANGED <<case_results, clock>>
           ELSE /\ recalled = {}
                /\ case_results' =
                     StoreCompleted(case_results, t.case_id,
                        DivorceResults(running.case_data, x), clock)
                /\ clock' = clock + 1
                /\ running' = NoRun
                /\ last' = Report(t, "returned", "")
    /\ UNCHANGED <<background_tasks, issued, polled, legal_knowledge>>

\* the backend raises e on the current task of the divorce crew: kickoff
\* (line 239 of divorce_crew.py) is not guarded, lines 170-173 of cases.py run
DivorceStepRaises(e) ==
    /\ running # NoRun
    /\ running.task.func = "process_divorce_background"
    /\ EndInError(running.task, "backend_raised", e)
    /\ UNCHANGED <<background_tasks, issued, polled, legal_knowledge>>

process_divorce_background ==
    \/ \E t \in background_tasks, crew_ok \in BOOLEAN : DivorceBegin(t, crew_ok)
    \/ \E x \in Texts, recalled \in SUBSET Elements(DivorceTasks) :
          DivorceStepReturns(x, recalled)
    \/ \E e \in BackendErrors : DivorceStepRaises(e)

Next ==
    \/ create_probate_case
    \/ create_divorce_case
    \/ \E case_id \in QueryIds : get_case_status(case_id)
    \/ \E case_id \in QueryIds : get_case_results(case_id)
    \/ process_probate_background
    \/ process_divorce_background

Spec == Init /\ [][Next]_vars

\* the submissions and the background executions; the two query handlers
\* write nothing that a submission or an execution reads
NextLive ==
    \/ create_probate_case
    \/ create_divorce_case
    \/ process_probate_background
    \/ process_divorce_background

\* the program with its background executions scheduled fairly: the server
\* runs every function handed to background_tasks.add_task once the response
\* is sent, and every call of the backend returns or raises
SpecLive ==
    /\ Init
    /\ [][NextLive]_vars
    /\ WF_vars(process_probate_background)
    /\ WF_vars(process_divorce_background)

\* the same program, watched by a client that notes each status it is given
NextPolled ==
    \/ create_probate_case
    \/ create_divorce_case
    \/ \E case_id \in QueryIds : get_case_status_polled(case_id)
    \/ \E case_id \in QueryIds : get_case_results(case_id)
    \/ process_probate_background
    \/ process_divorce_background

SpecPolled == Init /\ [][NextPolled]_vars

\* the same program, watched by a client that notes each payload it is given
NextNoted ==
    \/ create_probate_case
    \/ create_divorce_case
    \/ \E case_id \in QueryIds : get_case_status(case_id)
    \/ \E case_id \in QueryIds : get_case_results_noted(case_id)
    \/ process_probate_background
    \/ process_divorce_background

SpecNoted == Init /\ [][NextNoted]_vars

(***************************************************************************)
(* The structuring functions and the knowledge lookup called on their own: *)
(* a behaviour starts with one call pending on one input, and its step     *)
(* makes the call and notes the result in last.                            *)
(***************************************************************************)
EstateValues ==
    {100000 * k : k \in 0..MaxEstateUnits}
        \cup {0 - 100000, 325000, 350000, 500001, 500002, 1000001, 2000001}

PropertyValues(estate_value) ==
    {0, (7 * estate_value) \div 10, ((7 * estate_value) \div 10) + 1}

CalcInputs ==
    UNION { UNION { { [estate_value |-> [int |-> e], property_value |-> [int |-> p]],
                      [estate_value |-> [int |-> e], property_value |-> [int |-> p],
                       urgency_level |-> "HIGH"],
                      [estate_value |-> [int |-> e], property_value |-> [int |-> p],
                       urgency_level |-> "MEDIUM"] } :
                    p \in PropertyValues(e) } :
            e \in EstateValues }

QueryWords ==
    { <<"I", "H", "T">>, <<"t", "a", "x">>, <<"P", "r", "o", "b", "a", "t", "e">>,
      <<"e", "s", "t", "a", "t", "e">>, <<"p", "r", "o", "p", "e", "r", "t", "y">>,
      <<"G", "D", "P", "R">>, <<"w", "i", "l", "l">>,
      <<"i", "n", "h", "e", "r", "i", "t", "a", "n", "c", "e">>,
      <<"a", "d", "m", "i", "n", "i", "s", "t", "r", "a", "t", "i", "o", "n">> }

\* the queries of at most n words, the words separated by one space
RECURSIVE QueriesOf(_)
QueriesOf(n) ==
    IF n = 0 THEN {<<>>}
    ELSE QueriesOf(n - 1) \cup
         { IF q = <<>> THEN w ELSE q \o <<" ">> \o w :
             q \in QueriesOf(n - 1), w \in QueryWords }

Queries == QueriesOf(MaxQueryWords)

\* two texts the inference backend may return for the last step
AnalysisTexts ==
    {[text |-> "Apply for the grant of probate."],
     [text |-> "Inheritance tax is due before the grant."]}

\* the case data _structure_probate_results is given: enhanced case inputs
EnhancedInputs ==
    { enhanced.value :
        enhanced \in { e \in { _enhance_case_with_context(case_data) :
                                 case_data \in CalcInputs } : e.ok } }

\* two runs of the result structuring on one case input: the texts of the
\* backend and the readings of the clock in the two runs
PairedRuns ==
    { [case_data |-> case_data, crew_results |-> <<x1, x2>>, nows |-> nows] :
        case_data \in EnhancedInputs, x1 \in AnalysisTexts, x2 \in AnalysisTexts,
        nows \in {<<0, 0>>, <<0, 1>>} }

\* pipeline definitions a Crew can be built from: a tasks list and the
\* context list of each of its tasks.  The two of the source, and the divorce
\* one with legal_task given a later task (forward), a task that is not in
\* the tasks list (undeclared), itself, or a task that names it in turn
\* (circular: context is an attribute that can be assigned after both tasks
\* exist)
PipelineDefinitions ==
    { [tasks |-> ProbateTasks, contexts |-> ProbateContext],
      [tasks |-> DivorceTasks, contexts |-> DivorceContext],
      [tasks |-> DivorceTasks,
       contexts |-> [DivorceContext EXCEPT
                       !.legal_task = <<"financial_task", "property_task">>]],
      [tasks |-> DivorceTasks,
       contexts |-> [DivorceContext EXCEPT
                       !.legal_task = <<"financial_task", "valuation_task">>]],
      [tasks |-> DivorceTasks,
       contexts |-> [DivorceContext EXCEPT !.legal_task = <<"legal_task">>]],
      [tasks |-> DivorceTasks,
       contexts |-> [DivorceContext EXCEPT
                       !.legal_task = <<"property_task">>,
                       !.property_task = <<"legal_task">>]] }

\* every context list of the definition names tasks placed earlier in the
\* tasks list only
ContextsNameEarlierTasks(tasks, contexts) ==
    \A i \in 1..Len(tasks) :
        Elements(contexts[tasks[i]]) \subseteq {tasks[j] : j \in 1..(i - 1)}

\* the construction of a pipeline, probate_crew.py lines 413-720 and
\* divorce_crew.py lines 96-236: the Task objects are built with their
\* context lists and handed to Crew(tasks=[...]) as they are; no statement of
\* the source compares a context list with the tasks list.  Whether the
\* constructor of the library makes such a check is not decided by the
\* source: library_checks is TRUE when it does.  The crew that is returned
\* is the one kickoff() is called on (lines 726 and 241).
Crew(tasks, contexts, library_checks) ==
    IF library_checks /\ ~ContextsNameEarlierTasks(tasks, contexts)
    THEN [ok |-> FALSE, error |-> "context names a task that is not earlier"]
    ELSE [ok |-> TRUE, value |-> [tasks |-> tasks, contexts |-> contexts]]

PendingCalls ==
    {[op |-> "call", func |-> "Crew", input |-> definition] :
        definition \in PipelineDefinitions}
    \cup
    {[op |-> "call", func |-> f, input |-> case_data] :
        f \in {"_assess_complexity", "_extract_tax_info"}, case_data \in CalcInputs}
    \cup {[op |-> "call", func |-> "search_legal_info", input |-> query] :
            query \in Queries}
    \cup {[op |-> "call", func |-> "_structure_probate_results", input |-> runs] :
            runs \in PairedRuns}
    \cup {[op |-> "call", func |-> "legal_context", input |-> case_data] :
            case_data \in EnhancedInputs}

InitCalc ==
    /\ case_results = <<>>
    /\ background_tasks = {}
    /\ running = NoRun
    /\ clock = 0
    /\ issued = <<>>
    /\ polled = <<>>
    /\ last \in PendingCalls
    /\ legal_knowledge = _load_comprehensive_legal_knowledge

NoteCall(result) ==
    /\ last' = [op |-> last.func, input |-> last.input, result |-> result]
    /\ UNCHANGED <<case_results, background_tasks, running, clock, issued, polled>>

\* the pending call of ProbateCrew._assess_complexity
_assess_complexity_call ==
    /\ last.op = "call"
    /\ last.func = "_assess_complexity"
    /\ NoteCall(_assess_complexity(last.input))
    /\ UNCHANGED legal_knowledge

\* the pending call of ProbateCrew._extract_tax_info
_extract_tax_info_call ==
    /\ last.op = "call"
    /\ last.func = "_extract_tax_info"
    /\ \E crew_result \in Texts :
          NoteCall(_extract_tax_info(last.input, crew_result))
    /\ UNCHANGED legal_knowledge

\* the pending call of UKLegalResearchTool._run, lines 27-28: the lookup
\* reads self.legal_knowledge and assigns nothing to it
_run ==
    /\ last.op = "call"
    /\ last.func = "search_legal_info"
    /\ NoteCall(search_legal_info(legal_knowledge, last.input))
    /\ UNCHANGED legal_knowledge

\* the pending pair of calls of ProbateCrew._structure_probate_results
_structure_probate_results_calls ==
    /\ last.op = "call"
    /\ last.func = "_structure_probate_results"
    /\ NoteCall(<< _structure_probate_results(last.input.case_data,
                        last.input.crew_results[1], last.input.nows[1]),
                   _structure_probate_results(last.input.case_data,
                        last.input.crew_results[2], last.input.nows[2]) >>)
    /\ UNCHANGED legal_knowledge

\* the pending lookup of the legal context in process_probate_case, lines
\* 408-410, made on the case data that _enhance_case_with_context accepted
legal_context_call ==
    /\ last.op = "call"
    /\ last.func = "legal_context"
    /\ NoteCall(search_legal_info(legal_knowledge, LegalContextQuery(last.input)))
    /\ UNCHANGED legal_knowledge

\* the pending construction of a pipeline from a definition
Crew_call ==
    /\ last.op = "call"
    /\ last.func = "Crew"
    /\ \E library_checks \in BOOLEAN :
          NoteCall(Crew(last.input.tasks, last.input.contexts, library_checks))
    /\ UNCHANGED legal_knowledge

NextCalc ==
    \/ Crew_call
    \/ legal_context_call
    \/ _assess_complexity_call
    \/ _extract_tax_info_call
    \/ _run
    \/ _structure_probate_results_calls

SpecCalc == InitCalc /\ [][NextCalc]_vars

(***************************************************************************)
(* Vocabulary of the properties.                                           *)
(***************************************************************************)
Terminal == {"completed", "completed_with_fallback", "error"}

Statuses == {"processing"} \cup Terminal

CreateOps == {"create_probate_case", "create_divorce_case"}

QueryOps == {"get_case_status", "get_case_results"}

BackgroundOps == {"process_probate_background", "process_divorce_background"}

\* the outcomes with which a background execution ends and writes the store
EndOutcomes ==
    {"returned", "backend_raised", "crew_raised", "input_raised", "fallback_raised"}

\* the two records agree on the optional field f
SameField(r1, r2, f) ==
    /\ (f \in DOMAIN r1) <=> (f \in DOMAIN r2)
    /\ (f \in DOMAIN r1) => (r1[f] = r2[f])

IsUpperHex(c) == \E i \in 1..16 : HexUpper[i] = c

\* id is the prefix followed by exactly 8 upper-case hexadecimal characters
WellFormed(id, prefix) ==
    /\ Len(id) = Len(prefix) + 8
    /\ SubSeq(id, 1, Len(prefix)) = prefix
    /\ \A k \in (Len(prefix) + 1)..Len(id) : IsUpperHex(id[k])

\* the step just taken is a submission
SubmissionStep == last'.op \in CreateOps /\ vars' # vars

\* the step just taken is the end of a background execution
CompletionStep == last'.op \in BackgroundOps /\ last'.outcome \in EndOutcomes
                    /\ vars' # vars

(***************************************************************************)
(* C1: the status returned by successive status queries for a case id      *)
(* never moves from a terminal value back to processing and never changes  *)
(* from one terminal value to another (checked under SpecPolled).          *)
(***************************************************************************)
C1_PolledStatusMonotone ==
    [][\A id \in DOMAIN polled :
          polled[id] \in Terminal => polled'[id] = polled[id]]_vars

(***************************************************************************)
(* C2: the status of every record in the store is one of processing,       *)
(* completed, completed_with_fallback, error, and the record of the job    *)
(* just submitted has status processing.                                   *)
(***************************************************************************)
C2_StatusDomain ==
    /\ \A id \in DOMAIN case_results : case_results[id]["status"] \in Statuses
    /\ last.op \in CreateOps =>
          /\ last.status = "processing"
          /\ case_results[last.case_id]["status"] = "processing"

C2_Witness ==
    /\ last.op = "create_divorce_case"
    /\ \E id \in DOMAIN case_results : case_results[id]["status"] = "error"
    /\ \E id \in DOMAIN case_results : case_results[id]["status"] = "processing"

(***************************************************************************)
(* C3 as stated: when the backend raises on a step of the probate          *)
(* pipeline, the job's status is completed_with_fallback and its result    *)
(* payload has a non-empty next-steps list.                                *)
(***************************************************************************)
C3_FallbackStatus ==
    (last.op = "process_probate_background" /\ last.outcome = "backend_raised") =>
        LET case == case_results[last.case_id]
        IN  /\ case["status"] = "completed_with_fallback"
            /\ "results" \in DOMAIN case
            /\ Len(case["results"].next_steps) > 0

(***************************************************************************)
(* C4: when the backend raises on a step of the divorce pipeline, the job  *)
(* is in status error, the error message is recorded, and no result        *)
(* payload is attached.                                                    *)
(***************************************************************************)
C4_DivorceFailure ==
    (last.op = "process_divorce_background" /\ last.outcome = "backend_raised") =>
        LET case == case_results[last.case_id]
        IN  /\ case["status"] = "error"
            /\ "error" \in DOMAIN case /\ case["error"] = last.detail
            /\ "results" \notin DOMAIN case

(***************************************************************************)
(* C5: the completing or failing write of a background execution for a     *)
(* case whose job is not in status processing leaves the record unchanged. *)
(***************************************************************************)
C5_NoDoubleCompletion ==
    [][(CompletionStep /\ case_results[last'.case_id]["status"] # "processing")
          => case_results'[last'.case_id] = case_results[last'.case_id]]_vars

(***************************************************************************)
(* C6: once a record is in a terminal status, its result payload, its      *)
(* completed timestamp, its created timestamp and its error message never  *)
(* change.                                                                 *)
(***************************************************************************)
C6_TerminalImmutable ==
    [][\A id \in DOMAIN case_results :
          case_results[id]["status"] \in Terminal =>
              \A f \in {"results", "completed_at", "created_at", "error"} :
                  SameField(case_results[id], case_results'[id], f)]_vars

(***************************************************************************)
(* C7: no two submissions are assigned the same case id.                   *)
(***************************************************************************)
C7_UniqueIds ==
    \A i, j \in 1..Len(issued) : i # j => issued[i] # issued[j]

(***************************************************************************)
(* C8: a submission under a case id that is already in the store fails and *)
(* leaves the store unchanged.                                             *)
(***************************************************************************)
C8_DuplicateRejected ==
    [][(SubmissionStep /\ last'.case_id \in DOMAIN case_results)
          => (last'.code # 200 /\ case_results' = case_results)]_vars

(***************************************************************************)
(* C9: the id returned by a probate submission is PROB_ and 8 upper-case   *)
(* hexadecimal characters, the id returned by a divorce submission is DIV_ *)
(* and 8 upper-case hexadecimal characters, and the record stored under an *)
(* id has the case type of its prefix.                                     *)
(***************************************************************************)
C9_CaseIdFormat ==
    /\ last.op = "create_probate_case" =>
          /\ WellFormed(last.case_id, PROB)
          /\ case_results[last.case_id]["case_type"] = "probate"
    /\ last.op = "create_divorce_case" =>
          /\ WellFormed(last.case_id, DIV)
          /\ case_results[last.case_id]["case_type"] = "divorce"
    /\ \A id \in DOMAIN case_results :
          \/ WellFormed(id, PROB) /\ case_results[id]["case_type"] = "probate"
          \/ WellFormed(id, DIV) /\ case_results[id]["case_type"] = "divorce"

C9_Witness ==
    /\ last.op = "create_probate_case"
    /\ \E id \in DOMAIN case_results : case_results[id]["case_type"] = "divorce"

(***************************************************************************)
(* C10: a status query and a result query for a case id that no submission *)
(* has returned both answer 404, and neither changes the store.            *)
(***************************************************************************)
C10_UnknownIdNotFound ==
    [][(last'.op \in QueryOps /\ vars' # vars
            /\ \A i \in 1..Len(issued) : issued[i] # last'.case_id)
          => /\ last'.code = 404
             /\ case_results' = case_results
             /\ last'.case_id \notin DOMAIN case_results']_vars

C10_Witness ==
    /\ last.op = "get_case_results"
    /\ last.code = 404
    /\ DOMAIN case_results # {}

(***************************************************************************)
(* C11: a result query for an existing case returns the result payload     *)
(* exactly when the job is in a terminal success or fallback state, and    *)
(* otherwise answers "Case is still processing"; it never returns a        *)
(* payload while the job is in status processing.                          *)
(***************************************************************************)
C11_ResultsWhenCompleted ==
    (last.op = "get_case_results" /\ last.case_id \in DOMAIN case_results) =>
        LET case == case_results[last.case_id]
        IN  /\ last.code = 200 <=>
                  case["status"] \in {"completed", "completed_with_fallback"}
            /\ last.code = 200 =>
                  "results" \in DOMAIN case /\ last.results = case["results"]
            /\ last.code # 200 =>
                  last.code = 400 /\ last.detail = "Case is still processing"
            /\ case["status"] = "processing" => last.code # 200

C11_Witness ==
    /\ last.op = "get_case_results"
    /\ last.code = 200
    /\ last.results.processing_status = "completed_with_fallback"

(***************************************************************************)
(* C12: a result query on a job in status error does not give the outcome  *)
(* that a result query on a job in status processing gives.                *)
(***************************************************************************)
C12_ErrorDistinguished ==
    (last.op = "get_case_results" /\ last.case_id \in DOMAIN case_results
        /\ case_results[last.case_id]["status"] = "error") =>
        ~(last.code = 400 /\ last.detail = "Case is still processing")

(***************************************************************************)
(* C13: every case id that a submission has returned is in the store with  *)
(* a status, a case type and a created timestamp, and a status query for   *)
(* it succeeds.                                                            *)
(***************************************************************************)
C13_StatusAlwaysAvailable ==
    /\ \A i \in 1..Len(issued) :
          /\ issued[i] \in DOMAIN case_results
          /\ {"status", "case_type", "created_at"}
                \subseteq DOMAIN case_results[issued[i]]
          /\ StatusResponse(issued[i]).code = 200
    /\ (last.op = "get_case_status"
            /\ \E i \in 1..Len(issued) : issued[i] = last.case_id)
          => last.code = 200

C13_Witness ==
    /\ last.op = "get_case_status"
    /\ last.code = 200
    /\ last.status = "error"

(***************************************************************************)
(* C14: a result query for a case id returns the payload that the earlier  *)
(* result queries for that id returned (checked under SpecNoted).          *)
(***************************************************************************)
C14_SamePayload ==
    [][\A id \in DOMAIN polled : polled'[id] = polled[id]]_vars

(***************************************************************************)
(* The pipelines as the specification states them, written with the names  *)
(* of the Task variables of the source: Document-Analysis is               *)
(* document_analysis_task, Legal-Strategy is legal_strategy_task (probate) *)
(* or legal_task (divorce), Tax-Calculation is tax_calculation_task,       *)
(* Compliance-Assessment is compliance_task, Case-Management is            *)
(* case_management_task, Financial-Analysis is financial_task,             *)
(* Property-Strategy is property_task, Mediation-Plan is mediation_task.   *)
(***************************************************************************)
StatedOrder(func) ==
    IF func = "process_probate_background"
    THEN << "document_analysis_task", "legal_strategy_task",
            "tax_calculation_task", "compliance_task", "case_management_task" >>
    ELSE << "financial_task", "legal_task", "property_task", "mediation_task" >>

StatedUpstream ==
    [ document_analysis_task |-> {},
      legal_strategy_task |-> {"document_analysis_task"},
      tax_calculation_task |-> {"document_analysis_task", "legal_strategy_task"},
      compliance_task |-> {"document_analysis_task"},
      case_management_task |->
        {"document_analysis_task", "legal_strategy_task",
         "tax_calculation_task", "compliance_task"},
      financial_task |-> {},
      legal_task |-> {"financial_task"},
      property_task |-> {"financial_task"},
      mediation_task |-> {"financial_task", "legal_task", "property_task"} ]

(***************************************************************************)
(* C15: within one execution the steps run one at a time in the stated     *)
(* order: the step in progress is the one after the recorded results, an   *)
(* execution begins with step 1, and step N+1 is in progress only after    *)
(* the result of step N has been appended to the recorded results.         *)
(***************************************************************************)
C15_StepsSequential ==
    [][running' # NoRun =>
          LET order == StatedOrder(running'.task.func)
          IN  /\ running'.step \in 1..Len(order)
              /\ running'.current = order[running'.step]
              /\ Len(running'.outputs) = running'.step - 1
              /\ IF running = NoRun
                 THEN running'.step = 1
                 ELSE /\ running'.task = running.task
                      /\ running'.step = running.step + 1
                      /\ SubSeq(running'.outputs, 1, Len(running.outputs))
                            = running.outputs]_vars

C15_Witness ==
    /\ running # NoRun
    /\ running.current = "case_management_task"
    /\ Len(running.outputs) = 4

(***************************************************************************)
(* C16 as stated: what is handed to the step in progress, through its      *)
(* context list and through the memory of its crew, holds the recorded     *)
(* result of every step of its stated upstream set and of no other step;   *)
(* compliance_task is handed the output of document_analysis_task and      *)
(* neither that of tax_calculation_task nor that of legal_strategy_task.   *)
(***************************************************************************)
C16_ContextIsUpstream ==
    running # NoRun =>
        LET order == StatedOrder(running.task.func)
            handed == DOMAIN running.context \cup DOMAIN running.memory
        IN  /\ handed = StatedUpstream[running.current]
            /\ \A name \in DOMAIN running.context :
                  /\ running.context[name]
                        = running.outputs[TaskIndex(order, name)]
                  /\ running.context[name].task = name
                  /\ running.context[name].raw \in Texts
            /\ running.current = "compliance_task" =>
                  /\ "document_analysis_task" \in handed
                  /\ "tax_calculation_task" \notin handed
                  /\ "legal_strategy_task" \notin handed

\* no step of the definition names an upstream step that is undeclared,
\* placed later, or the step itself
IsWellFormed(definition) ==
    \A i \in 1..Len(definition.tasks) :
        \A name \in Elements(definition.contexts[definition.tasks[i]]) :
            \E j \in 1..(i - 1) : definition.tasks[j] = name

(***************************************************************************)
(* C17: in both pipelines the context list of every task names only tasks  *)
(* that come earlier in the tasks list, the first task has no context, any *)
(* other task has at least one context task, the last task has all the     *)
(* earlier tasks as context, and the context lists are the stated upstream *)
(* sets; the step in progress is handed results of earlier steps only.     *)
(***************************************************************************)
IsDag(tasks, contexts) ==
    /\ DOMAIN contexts = Elements(tasks)
    /\ \A i \in 1..Len(tasks) :
          LET upstream == Elements(contexts[tasks[i]])
          IN  /\ upstream \subseteq {tasks[j] : j \in 1..(i - 1)}
              /\ (i = 1) => (upstream = {})
              /\ (i > 1) => (upstream # {})
              /\ (i = Len(tasks)) => (upstream = {tasks[j] : j \in 1..(i - 1)})
              /\ upstream = StatedUpstream[tasks[i]]

C17_PipelinesAreDags ==
    /\ IsDag(ProbateTasks, ProbateContext)
    /\ IsDag(DivorceTasks, DivorceContext)
    /\ ProbateTasks = StatedOrder("process_probate_background")
    /\ DivorceTasks = StatedOrder("process_divorce_background")
    /\ running # NoRun =>
          DOMAIN running.context \subseteq
              {StatedOrder(running.task.func)[j] : j \in 1..(running.step - 1)}

C17_Witness ==
    /\ running # NoRun
    /\ running.current = "mediation_task"
    /\ DOMAIN running.context = {"financial_task", "legal_task", "property_task"}

C19_AbortOnBackendFailure ==
    [][(last'.op \in BackgroundOps /\ last'.outcome = "backend_raised") =>
          /\ running # NoRun
          /\ running' = NoRun
          /\ last'.op = running.task.func
          /\ last'.case_id = running.task.case_id
          /\ last'.detail \in BackendErrors
          /\ background_tasks' = background_tasks
          /\ running.task \notin background_tasks'
          /\ LET case == case_results'[last'.case_id]
             IN  IF last'.op = "process_probate_background"
                 THEN /\ "results" \in DOMAIN case
                      /\ case["results"].error
                            = <<"CrewAI processing error: ", last'.detail>>
                 ELSE /\ "error" \in DOMAIN case
                      /\ case["error"] = last'.detail]_vars

C19_Witness ==
    /\ last.op = "process_divorce_background"
    /\ last.outcome = "backend_raised"
    /\ running = NoRun
    /\ \A t \in background_tasks : t.n # last.n
    /\ case_results[last.case_id]["error"] = last.detail

(***************************************************************************)
(* C20: under fair scheduling of the background executions, and with every *)
(* call of the backend returning or raising, a case whose job is in status *)
(* processing eventually has a job in a terminal status.                   *)
(***************************************************************************)
CaseIds == {MakeCaseId(prefix, u) : prefix \in {PROB, DIV}, u \in Uuids}

C20_EventuallyTerminal ==
    \A id \in CaseIds :
        (id \in DOMAIN case_results /\ case_results[id]["status"] = "processing")
            ~> (id \in DOMAIN case_results /\ case_results[id]["status"] \in Terminal)

C20_Witness ==
    /\ Len(issued) = MaxSubmissions
    /\ background_tasks = {}
    /\ running = NoRun
    /\ \E id \in DOMAIN case_results : case_results[id]["status"] = "completed"
    /\ \E id \in DOMAIN case_results : case_results[id]["status"] = "error"

(***************************************************************************)
(* C21: every background execution ends in a step that writes a status of  *)
(* the job: whatever was raised on the way (by the crew constructor, by    *)
(* the assembly of the prompts, by a call of the backend), the step in     *)
(* which the execution ends reports an outcome and leaves the job in a     *)
(* terminal status, and a raise leaves a message or a fallback payload in  *)
(* the record.                                                             *)
(***************************************************************************)
ExecutionEnds ==
    /\ running' = NoRun
    /\ \/ running # NoRun
       \/ /\ background_tasks' \subseteq background_tasks
          /\ background_tasks' # background_tasks

EndingTask ==
    IF running # NoRun THEN running.task
    ELSE CHOOSE t \in background_tasks : t \notin background_tasks'

C21_FailuresCaught ==
    [][ExecutionEnds =>
          LET t == EndingTask
              case == case_results'[t.case_id]
          IN  /\ last'.op = t.func
              /\ last'.n = t.n
              /\ last'.outcome \in EndOutcomes
              /\ case["status"] \in Terminal
              /\ last'.outcome # "returned" =>
                    \/ /\ case["status"] = "error"
                       /\ case["error"] = last'.detail
                    \/ /\ case["status"] = "completed"
                       /\ case["results"].processing_status
                             = "completed_with_fallback"]_vars

C21_Witness ==
    /\ last.op = "process_probate_background"
    /\ last.outcome = "crew_raised"
    /\ running = NoRun
    /\ case_results[last.case_id]["status"] = "error"
    /\ case_results[last.case_id]["error"] = CrewInitError

(***************************************************************************)
(* C22: an operation on one case never changes the record of another case: *)
(* the record held under an id changes only in the step that ends the      *)
(* background execution of the case that record belongs to (the record     *)
(* holds the input snapshot of that execution); a submission, a query or   *)
(* the execution of any other case leaves it as it is.                     *)
(***************************************************************************)
C22_NoCrossCaseWrites ==
    [][\A id \in DOMAIN case_results :
          case_results'[id] # case_results[id] =>
              /\ ExecutionEnds
              /\ EndingTask.case_id = id
              /\ case_results[id]["case_data"] = EndingTask.case_data]_vars

(***************************************************************************)
(* C23: cases execute concurrently: while the pipeline run of one case is  *)
(* in progress, the run of another submitted case, whose job is still in   *)
(* status processing, can start its first step, so that the two runs are   *)
(* in progress together.                                                   *)
(***************************************************************************)
C23_ConcurrentRuns ==
    (/\ running # NoRun
     /\ \E t \in background_tasks :
           /\ t.case_id # running.task.case_id
           /\ case_results[t.case_id]["status"] = "processing")
        => ENABLED (\E t \in background_tasks :
                       ProbateBegin(t, TRUE) \/ DivorceBegin(t, TRUE))

(***************************************************************************)
(* C24: in every state the attachments of each job record match its        *)
(* status: a job in processing has no result payload, no completed         *)
(* timestamp and no error message; a completed job has a result payload    *)
(* and a completed timestamp; a job in error has an error message and no   *)
(* result payload.                                                         *)
(***************************************************************************)
C24_AttachmentsMatchStatus ==
    \A id \in DOMAIN case_results :
        LET case == case_results[id]
        IN  /\ case["status"] = "processing" =>
                  /\ "results" \notin DOMAIN case
                  /\ "completed_at" \notin DOMAIN case
                  /\ "error" \notin DOMAIN case
            /\ case["status"] \in {"completed", "completed_with_fallback"} =>
                  /\ "results" \in DOMAIN case
                  /\ "completed_at" \in DOMAIN case
            /\ case["status"] = "error" =>
                  /\ "error" \in DOMAIN case
                  /\ "results" \notin DOMAIN case


(***************************************************************************)
(* The amounts and classifications of the probate payload                  *)
(***************************************************************************)

\* the whole number an amount such as "£40,000" shows: its decimal digits
\* read from the left, the pound sign and the commas skipped
RECURSIVE AmountShown(_)
AmountShown(text) ==
    IF text = <<>> THEN 0
    ELSE LET c == text[Len(text)]
             rest == AmountShown(SubSeq(text, 1, Len(text) - 1))
         IN  IF \E d \in 0..9 : DecDigits[d + 1] = c
             THEN 10 * rest + (CHOOSE d \in 0..9 : DecDigits[d + 1] = c)
             ELSE rest

\* max(0, (estate value - 500,000) * 40%), in hundredths of a pound
StatedEstimate(estate_value) ==
    IF estate_value > 500000 THEN (estate_value - 500000) * 40 ELSE 0

\* a finished tax analysis of the case data in last.input
TaxAnalysed ==
    /\ last.op = "_extract_tax_info"
    /\ last.result.ok

\* C25 as stated: the tax-liability estimate of every tax analysis equals
\* max(0, (estate value - 500,000) * 40%) to the penny, is never negative,
\* is 0 for an estate value at or below 500,000 and 40,000 for 600,000.
C25_EstimateIsFormula ==
    TaxAnalysed =>
        LET estate_value == last.input["estate_value"].int
            shown == AmountShown(last.result.value.potential_iht)
        IN  /\ 100 * shown = StatedEstimate(estate_value)
            /\ shown >= 0
            /\ estate_value <= 500000 => shown = 0
            /\ estate_value = 600000 => shown = 40000

\* C25 amended: the tax-liability estimate of every tax analysis is
\* max(0, (estate value - 500,000) * 40%) rounded to the nearest whole
\* pound, written with a pound sign and no sign of its own; it is "£0" for
\* an estate value at or below 500,000 and "£40,000" for 600,000.
C25_EstimateRounded ==
    TaxAnalysed =>
        LET estate_value == last.input["estate_value"].int
            text == last.result.value.potential_iht
            shown == AmountShown(text)
        IN  /\ text = <<"£">> \o FormatGrouped(shown)
            /\ 100 * shown - StatedEstimate(estate_value) \in (0 - 49)..49
            /\ shown >= 0
            /\ estate_value <= 500000 => text = <<"£", "0">>
            /\ estate_value = 600000
                 => text = <<"£", "4", "0", ",", "0", "0", "0">>
            /\ last.result.value.combined_threshold
                 = <<"£", "5", "0", "0", ",", "0", "0", "0">>

\* a tax analysis of an estate one pound over the threshold has been made:
\* the formula gives 40 pence and the estimate shows no pounds
C25_Witness ==
    /\ TaxAnalysed
    /\ last.input["estate_value"].int = 500001
    /\ last.result.value.potential_iht = <<"£", "0">>

\* the reference scoring of the probate complexity: 3, 2 or 1 for an estate
\* over 2,000,000, 1,000,000 or 500,000, plus 1 for a property value over
\* 70% of the estate value, plus 1 for urgency HIGH; 4 or more is HIGH, 2 or
\* more MEDIUM, less LOW
ReferenceComplexity(estate_value, property_value, urgency) ==
    LET score ==
            (IF estate_value > 2000000 THEN 3
             ELSE IF estate_value > 1000000 THEN 2
             ELSE IF estate_value > 500000 THEN 1
             ELSE 0)
            + (IF 10 * property_value > 7 * estate_value THEN 1 ELSE 0)
            + (IF urgency = "HIGH" THEN 1 ELSE 0)
    IN  IF score >= 4 THEN "HIGH" ELSE IF score >= 2 THEN "MEDIUM" ELSE "LOW"

\* C26: for every estate value, property value and urgency the complexity
\* classification of the case is the one the reference scoring gives.
C26_ComplexityIsReference ==
    last.op = "_assess_complexity" =>
        /\ last.result.ok
        /\ last.result.value =
             ReferenceComplexity(last.input["estate_value"].int,
                                 last.input["property_value"].int,
                                 DictGet(last.input, "urgency_level", "None"))

\* the processing_status of the success payloads of the case inputs
SuccessMarkers ==
    { _structure_probate_results(enhanced.value, x, 0).processing_status :
        enhanced \in { e \in { _enhance_case_with_context(case_data) :
                                 case_data \in ProbateInputs } : e.ok },
        x \in Texts }

(***************************************************************************)
(* C27: the payload stored when the backend raises on a step of a probate  *)
(* pipeline carries the case id of the submitted case, a processing_status *)
(* that no success payload carries, a next-steps list whose first entry    *)
(* and a summary whose status direct to manual review, and the message of  *)
(* the error that was raised.                                              *)
(***************************************************************************)
C27_FallbackContents ==
    (last.op = "process_probate_background" /\ last.outcome = "backend_raised") =>
        LET case == case_results[last.case_id]
            payload == case["results"]
        IN  /\ payload.case_id = last.case_id
            /\ payload.case_id = case["case_data"]["case_id"]
            /\ payload.processing_status \notin SuccessMarkers
            /\ payload.next_steps # _extract_next_steps
            /\ payload.next_steps[1] =
                 "Contact qualified legal advisor for immediate manual review"
            /\ payload.summary.status = "Manual review required"
            /\ last.detail \in BackendErrors
            /\ payload.error = <<"CrewAI processing error: ", last.detail>>

\* a probate execution has just ended on a raise of the backend and the
\* record of its case holds the fallback payload with the case's id
C27_Witness ==
    /\ last.op = "process_probate_background"
    /\ last.outcome = "backend_raised"
    /\ running = NoRun
    /\ case_results[last.case_id]["results"].case_id = last.case_id
    /\ case_results[last.case_id]["results"].fallback_reason
         = "AI processing temporarily unavailable - manual review recommended"

(***************************************************************************)
(* The knowledge lookup                                                    *)
(***************************************************************************)

\* the human-readable title of each topic of the knowledge base
StatedTitle(section) ==
    IF section = inheritance_tax_2024_25 THEN
         << "I", "n", "h", "e", "r", "i", "t", "a", "n", "c", "e",
            " ", "T", "a", "x", " ", "2", "0", "2", "4", " ", "2",
            "5" >>
    ELSE
    IF section = probate_process_2024 THEN
         << "P", "r", "o", "b", "a", "t", "e", " ", "P", "r", "o",
            "c", "e", "s", "s", " ", "2", "0", "2", "4" >>
    ELSE
    IF section = property_valuation_probate_2024 THEN
         << "P", "r", "o", "p", "e", "r", "t", "y", " ", "V", "a",
            "l", "u", "a", "t", "i", "o", "n", " ", "P", "r", "o",
            "b", "a", "t", "e", " ", "2", "0", "2", "4" >>
    ELSE
    IF section = estate_administration_best_practices THEN
         << "E", "s", "t", "a", "t", "e", " ", "A", "d", "m", "i",
            "n", "i", "s", "t", "r", "a", "t", "i", "o", "n", " ",
            "B", "e", "s", "t", " ", "P", "r", "a", "c", "t", "i",
            "c", "e", "s" >>
    ELSE
         << "G", "d", "p", "r", " ", "P", "r", "o", "b", "a", "t",
            "e", " ", "C", "o", "m", "p", "l", "i", "a", "n", "c",
            "e", " ", "2", "0", "2", "4" >>

\* the keywords of the mapping, by their place in it, that occur in the
\* query once the query is put in lower case
MatchingKeywords(query) ==
    {k \in 1..Len(keyword_mapping) :
        \E i \in 0..(Len(query) - Len(keyword_mapping[k].keyword)) :
            \A j \in 1..Len(keyword_mapping[k].keyword) :
                LowerLetter(query[i + j]) = keyword_mapping[k].keyword[j]}

\* the places <<k, j>> at which the matching keywords of a query name a topic
Mentions(query, topic) ==
    {m \in MatchingKeywords(query) \X (1..2) :
        /\ m[2] <= Len(keyword_mapping[m[1]].sections)
        /\ keyword_mapping[m[1]].sections[m[2]] = topic}

Before(m, n) == m[1] < n[1] \/ (m[1] = n[1] /\ m[2] < n[2])

\* the topics the matching keywords of a query name
Collected(query) ==
    {topic \in DOMAIN legal_knowledge : Mentions(query, topic) # {}}

\* how many collected topics are named before the topic is first named
Rank(query, topic) ==
    Cardinality({other \in Collected(query) :
        \E n \in Mentions(query, other) :
            \A m \in Mentions(query, topic) : Before(n, m)})

\* a finished lookup of the query in last.input
LookedUp ==
    last.op = "search_legal_info"

\* the topics a response shows: their number, and the title and the text of
\* the i-th one
ShownCount(response) == (Len(response) - 4) \div 5
ShownTitle(response, i) == response[5 * i]
ShownText(response, i) == response[5 * i + 2]

(***************************************************************************)
(* C28: the response to a query in which keywords of the mapping occur     *)
(* shows the first two topics collected, or the only one: the keywords are *)
(* taken in the order of the mapping and matched as substrings of the      *)
(* query in lower case, each contributes its topics in order, a topic is   *)
(* collected once, at its first mention, and the response ends with the    *)
(* fixed note.                                                             *)
(***************************************************************************)
C28_FirstTwoTopics ==
    (LookedUp /\ MatchingKeywords(last.input) # {}) =>
        LET query == last.input
            response == last.result
            shown == ShownCount(response)
        IN  /\ Len(response) = 4 + 5 * shown
            /\ shown = IF Cardinality(Collected(query)) < 2
                       THEN Cardinality(Collected(query)) ELSE 2
            /\ \A i \in 1..shown :
                 \E topic \in Collected(query) :
                    /\ Rank(query, topic) = i - 1
                    /\ ShownTitle(response, i) = StatedTitle(topic)
                    /\ ShownText(response, i) = legal_knowledge[topic]
            /\ response[2] = query
            /\ response[Len(response)] = ImportantNote

\* a lookup of "tax estate" has been made: three topics are collected and
\* the response shows the inheritance tax and the estate administration ones
C28_Witness ==
    /\ LookedUp
    /\ last.input = <<"t", "a", "x", " ", "e", "s", "t", "a", "t", "e">>
    /\ Cardinality(Collected(last.input)) = 3
    /\ ShownCount(last.result) = 2
    /\ ShownTitle(last.result, 1) = StatedTitle(inheritance_tax_2024_25)
    /\ ShownTitle(last.result, 2) = StatedTitle(estate_administration_best_practices)

\* a lookup is pending for the query in last.input
LookupPending ==
    /\ last.op = "call"
    /\ last.func = "search_legal_info"

(***************************************************************************)
(* C29: every lookup ends in a response, one or two topics followed by the *)
(* fixed note, and leaves the knowledge base as it was; and when no        *)
(* keyword of the mapping occurs in the query, the response shows exactly  *)
(* two topics, the probate process overview and then the inheritance tax   *)
(* overview.                                                               *)
(***************************************************************************)
C29_DefaultPair ==
    [][LookupPending =>
          /\ LookedUp'
          /\ last'.input = last.input
          /\ legal_knowledge' = legal_knowledge
          /\ legal_knowledge' = _load_comprehensive_legal_knowledge
          /\ Len(last'.result) = 4 + 5 * ShownCount(last'.result)
          /\ ShownCount(last'.result) \in 1..2
          /\ last'.result[Len(last'.result)] = ImportantNote
          /\ MatchingKeywords(last.input) = {} =>
               /\ ShownCount(last'.result) = 2
               /\ ShownTitle(last'.result, 1) = StatedTitle(probate_process_2024)
               /\ ShownText(last'.result, 1) = legal_knowledge[probate_process_2024]
               /\ ShownTitle(last'.result, 2) = StatedTitle(inheritance_tax_2024_25)
               /\ ShownText(last'.result, 2)
                    = legal_knowledge[inheritance_tax_2024_25]]_vars

\* a lookup of "will", in which no keyword occurs, has been made and its
\* response shows the probate process overview first
C29_Witness ==
    /\ LookedUp
    /\ last.input = <<"w", "i", "l", "l">>
    /\ MatchingKeywords(last.input) = {}
    /\ ShownCount(last.result) = 2
    /\ ShownTitle(last.result, 1) = StatedTitle(probate_process_2024)

(***************************************************************************)
(* C30: an execution never changes the case input it was given.  The       *)
(* input of the execution in progress is, from its first step to its last, *)
(* the mapping of the task that was scheduled, and no step of a background *)
(* execution, the one in which it returns or fails included, changes the   *)
(* input snapshot in the record of any case.                               *)
(***************************************************************************)
C30_InputNotMutated ==
    [][/\ running' # NoRun =>
            IF running = NoRun
            THEN running'.task \in background_tasks
            ELSE running'.task = running.task
       /\ last'.op \in BackgroundOps =>
            \A id \in DOMAIN case_results :
                case_results'[id]["case_data"] = case_results[id]["case_data"]]_vars

\* a probate execution is past its first step: the case data was enhanced
\* for the prompts while the input of the execution and the snapshot in the
\* record have no iht_likely entry
C30_Witness ==
    /\ running # NoRun
    /\ running.task.func = "process_probate_background"
    /\ Len(running.outputs) > 0
    /\ "iht_likely" \in DOMAIN running.case_data
    /\ "iht_likely" \notin DOMAIN running.task.case_data
    /\ "iht_likely" \notin DOMAIN case_results[running.task.case_id]["case_data"]

(***************************************************************************)
(* The success payload of two runs on one case input                       *)
(***************************************************************************)

\* two runs of the result structuring on the case input in last.input have
\* produced the payloads in last.result
StructuredTwice ==
    last.op = "_structure_probate_results"

\* the computed figures of a success payload
Figures(payload) ==
    [ complexity |-> payload.summary.complexity,
      tax_analysis |-> payload.tax_analysis,
      cost_estimates |-> payload.cost_estimates,
      timeline |-> payload.timeline,
      next_steps |-> payload.next_steps,
      key_findings |-> payload.key_findings,
      compliance_score |-> payload.compliance_score ]

\* C31 as stated: two runs with the same case input produce success
\* payloads with the same computed figures, and the payloads differ in
\* nothing but the raw analysis text.
C31_DifferOnlyInText ==
    StructuredTwice =>
        /\ Figures(last.result[1]) = Figures(last.result[2])
        /\ [last.result[1] EXCEPT !.crew_analysis = last.result[2].crew_analysis]
             = last.result[2]

\* C31 amended: two runs with the same case input produce success payloads
\* with the same computed figures, and the payloads differ in nothing but
\* the raw analysis text and the time of processing.
C31_DifferOnlyInTextAndTime ==
    StructuredTwice =>
        /\ Figures(last.result[1]) = Figures(last.result[2])
        /\ [last.result[1] EXCEPT !.crew_analysis = last.result[2].crew_analysis,
                                  !.processed_at = last.result[2].processed_at]
             = last.result[2]
        /\ last.result[1].crew_analysis = last.input.crew_results[1]
        /\ last.result[2].crew_analysis = last.input.crew_results[2]

\* two runs on an estate of 600,000 with different texts of the backend, at
\* different times: the payloads carry their own text and the same estimate
C31_Witness ==
    /\ StructuredTwice
    /\ last.input.case_data["estate_value"].int = 600000
    /\ last.input.crew_results[1] # last.input.crew_results[2]
    /\ last.result[1].crew_analysis # last.result[2].crew_analysis
    /\ last.result[1].processed_at # last.result[2].processed_at
    /\ last.result[2].tax_analysis.potential_iht
         = <<"£", "4", "0", ",", "0", "0", "0">>

(***************************************************************************)
(* C32: the step that schedules an execution has stored the record of its  *)
(* case in status processing, with the input the execution is given; the   *)
(* record of every scheduled or running execution exists; and the step in  *)
(* which an execution writes its outcome finds the record and leaves it in *)
(* the store.                                                              *)
(***************************************************************************)
C32_RecordBeforeExecution ==
    [][/\ \A t \in background_tasks' \ background_tasks :
            /\ last'.op \in CreateOps
            /\ t.case_id \in DOMAIN case_results'
            /\ case_results'[t.case_id]["status"] = "processing"
            /\ case_results'[t.case_id]["case_data"] = t.case_data
       /\ \A t \in background_tasks' : t.case_id \in DOMAIN case_results'
       /\ running' # NoRun => running'.task.case_id \in DOMAIN case_results'
       /\ ExecutionEnds =>
            /\ EndingTask.case_id \in DOMAIN case_results
            /\ EndingTask.case_id \in DOMAIN case_results'
            /\ "created_at" \in DOMAIN case_results'[EndingTask.case_id]]_vars

\* an execution has written completed into the record that its submission
\* created
C32_Witness ==
    /\ last.op \in BackgroundOps
    /\ last.outcome = "returned"
    /\ last.case_id \in DOMAIN case_results
    /\ case_results[last.case_id]["status"] = "completed"
    /\ "created_at" \in DOMAIN case_results[last.case_id]
    /\ "completed_at" \in DOMAIN case_results[last.case_id]

\* the outcomes of a probate execution that ends outside the guarded run of
\* the backend: the crew constructor raised, or the assembly of the prompts,
\* or the generation of the fallback payload
GuardedOutcomes == {"returned", "backend_raised"}
UnguardedOutcomes == {"crew_raised", "input_raised", "fallback_raised"}

(***************************************************************************)
(* C33: the step in which a probate execution ends writes status error     *)
(* exactly when the failure was raised outside the guarded run of the      *)
(* backend, by the crew constructor, by the assembly of the prompts or by   *)
(* the generation of the fallback payload; an execution whose backend run  *)
(* raised, or returned and had its results structured, writes status       *)
(* completed and no error.                                                 *)
(***************************************************************************)
C33_ErrorOnlyOutsideGuard ==
    [][(ExecutionEnds /\ EndingTask.func = "process_probate_background") =>
          LET case == case_results'[EndingTask.case_id]
          IN  /\ last'.outcome \in GuardedOutcomes \cup UnguardedOutcomes
              /\ case["status"] = "error" <=> last'.outcome \in UnguardedOutcomes
              /\ last'.outcome \in UnguardedOutcomes =>
                   /\ running = NoRun <=> last'.outcome # "fallback_raised"
                   /\ case["error"] = last'.detail
              /\ last'.outcome \in GuardedOutcomes =>
                   /\ running # NoRun
                   /\ case["status"] = "completed"
                   /\ case["results"].case_id = EndingTask.case_id]_vars

\* a probate execution has ended on a raise of the prompt assembly (an
\* estate value that is no number) and its record is in status error
C33_Witness ==
    /\ last.op = "process_probate_background"
    /\ last.outcome = "input_raised"
    /\ case_results[last.case_id]["status"] = "error"
    /\ case_results[last.case_id]["error"] = last.detail
    /\ ~IsNumber(case_results[last.case_id]["case_data"]["estate_value"])

\* a status query has just been answered with the fields of a record
StatusAnswered ==
    /\ last.op = "get_case_status"
    /\ last.code = 200

(***************************************************************************)
(* C34: the progress string of an answered status query says that the      *)
(* agents are working exactly when the status of the job is processing,    *)
(* and says complete for every other status, error included.               *)
(***************************************************************************)
C34_ProgressString ==
    StatusAnswered =>
        /\ last.status = case_results[last.case_id]["status"]
        /\ last.progress \in {"AI agents are working...", "Complete"}
        /\ last.progress = "AI agents are working..." <=> last.status = "processing"
        /\ last.status \in Terminal => last.progress = "Complete"
        /\ last.status = "error" => last.progress = "Complete"

\* a status query on a job in status error has been answered "Complete"
C34_Witness ==
    /\ StatusAnswered
    /\ last.status = "error"
    /\ last.progress = "Complete"

(***************************************************************************)
(* C35: a status query or a result query, answered or refused, leaves the  *)
(* store as it was: the same case ids, each with the same record; it       *)
(* schedules nothing and starts nothing.                                   *)
(***************************************************************************)
C35_QueriesReadOnly ==
    [][last'.op \in QueryOps =>
          /\ DOMAIN case_results' = DOMAIN case_results
          /\ \A id \in DOMAIN case_results : case_results'[id] = case_results[id]
          /\ background_tasks' = background_tasks
          /\ running' = running
          /\ issued' = issued
          /\ last'.code \in {200, 400, 404}]_vars

\* a result query has been answered with the payload of a completed job,
\* and the record still holds that payload
C35_Witness ==
    /\ last.op = "get_case_results"
    /\ last.code = 200
    /\ last.case_id \in DOMAIN case_results
    /\ case_results[last.case_id]["results"] = last.results
    /\ case_results[last.case_id]["status"] = "completed"

\* the legal context of a case has been looked up
ContextLookedUp ==
    last.op = "legal_context"

(***************************************************************************)
(* C36: the legal context looked up for a probate case shows the same two  *)
(* topics whatever the estate value in the query: the inheritance tax      *)
(* topic and then the probate process topic.  The estate administration    *)
(* topic is collected third and is not shown.                              *)
(***************************************************************************)
C36_LegalContextFixed ==
    ContextLookedUp =>
        LET response == last.result
            query == response[2]
        IN  /\ ShownCount(response) = 2
            /\ Len(response) = 14
            /\ ShownTitle(response, 1) = StatedTitle(inheritance_tax_2024_25)
            /\ ShownText(response, 1) = legal_knowledge[inheritance_tax_2024_25]
            /\ ShownTitle(response, 2) = StatedTitle(probate_process_2024)
            /\ ShownText(response, 2) = legal_knowledge[probate_process_2024]
            /\ estate_administration_best_practices \in Collected(query)
            /\ Rank(query, estate_administration_best_practices) = 2
            /\ \A i \in 1..ShownCount(response) :
                 ShownTitle(response, i)
                    # StatedTitle(estate_administration_best_practices)

\* the legal context of an estate of 2,500,000 has been looked up
C36_Witness ==
    /\ ContextLookedUp
    /\ last.input["estate_value"].int = 2500000
    /\ SubSeq(last.result[2], Len(last.result[2]) - 6, Len(last.result[2]))
         = <<"2", "5", "0", "0", "0", "0", "0">>
    /\ ShownTitle(last.result, 1) = StatedTitle(inheritance_tax_2024_25)

(***************************************************************************)
(* C37: in every probate success payload the iht_likely flag of the        *)
(* summary is true exactly when the estate value exceeds 325,000; a tax    *)
(* estimate above zero comes with a true flag, while a true flag may come  *)
(* with an estimate of zero.                                               *)
(***************************************************************************)
C37_EstimateImpliesFlag ==
    StructuredTwice =>
        \A i \in 1..2 :
            LET payload == last.result[i]
                estate_value == last.input.case_data["estate_value"].int
                estimate == AmountShown(payload.tax_analysis.potential_iht)
            IN  /\ payload.summary.iht_likely \in BOOLEAN
                /\ payload.summary.iht_likely <=> estate_value > 325000
                /\ estimate > 0 => payload.summary.iht_likely
                /\ ~payload.summary.iht_likely =>
                     payload.tax_analysis.potential_iht = <<"£", "0">>

\* the success payload of an estate of 400,000: the flag is true and the
\* estimate is zero
C37_Witness ==
    /\ StructuredTwice
    /\ last.input.case_data["estate_value"].int = 400000
    /\ last.result[1].summary.iht_likely
    /\ last.result[1].tax_analysis.potential_iht = <<"£", "0">>

(***************************************************************************)
(* C38: for every property value and urgency, an estate of at most         *)
(* 1,000,000 is classified LOW or MEDIUM, and an estate of at most 500,000 *)
(* is classified MEDIUM only when the property value exceeds 70% of the    *)
(* estate value and the urgency is HIGH.                                   *)
(***************************************************************************)
C38_HighOnlyAboveMillion ==
    (last.op = "_assess_complexity" /\ last.result.ok) =>
        LET estate_value == last.input["estate_value"].int
            property_value == last.input["property_value"].int
            urgency == DictGet(last.input, "urgency_level", "None")
        IN  /\ estate_value <= 1000000 => last.result.value \in {"LOW", "MEDIUM"}
            /\ (estate_value <= 500000 /\ last.result.value = "MEDIUM") =>
                 /\ 10 * property_value > 7 * estate_value
                 /\ urgency = "HIGH"

====
